---------------------------- MODULE Spec2Model ----------------------------
(***************************************************************************)
(* A model of the medical image viewer: the DicomVolume slice stack with   *)
(* its memoised pixel decode (viewer/models/dicom.py) and the              *)
(* ViewerController's background loading (viewer/controllers/viewer.py).   *)
(*                                                                         *)
(* Python indices are 0-based and TLA+ sequences 1-based: slice index k    *)
(* of a volume is element k + 1 of its file list.                          *)
(***************************************************************************)
EXTENDS Integers, Sequences, FiniteSets, TLC

(***************************************************************************)
(* The file system the viewer reads.  It does not change while the viewer  *)
(* runs.  A file name is the sequence of its characters' code points, so   *)
(* that string comparison is computed, not assumed: "10" is <<1, 0>>.      *)
(***************************************************************************)

\* One directory entry.  isfile: os.path.isfile; dicom: pydicom.misc.is_dicom
\* (the DICM magic); header: dcmread(stop_before_pixels=True) succeeds;
\* hasInum/inum: the InstanceNumber tag; pixok: dcmread + pixel_array succeed;
\* pix: the decoded pixel row; hasSlope/slope, hasIcpt/icpt: RescaleSlope and
\* RescaleIntercept.
Entry(name, isfile, dicom, hasInum, inum, pixok, pix, hasSlope, slope, hasIcpt, icpt) ==
    [name |-> name, isfile |-> isfile, dicom |-> dicom, header |-> dicom,
     hasInum |-> hasInum, inum |-> inum, pixok |-> pixok, pix |-> pix,
     hasSlope |-> hasSlope, slope |-> slope, hasIcpt |-> hasIcpt, icpt |-> icpt]

\* A well-formed slice file with an InstanceNumber and both rescale tags.
Slice(name, inum, pix, slope, icpt) ==
    Entry(name, TRUE, TRUE, TRUE, inum, TRUE, pix, TRUE, slope, TRUE, icpt)

\* functools.lru_cache(maxsize=64) on DicomVolume._read_pixel_data.
maxsize == 64

\* How many files the long stack "L" holds beyond the capacity of the cache.
Overflow == 2

\* The files of directory "L", a stack longer than the cache: file 100 + i is
\* the i-th of the listing, which runs from the largest InstanceNumber down.
LongLen == maxsize + Overflow

LongFiles == {100 + i : i \in 1 .. LongLen}

\* The files of the model, by file id.
FS ==
    [f \in LongFiles |-> Slice(<<f>>, LongLen + 101 - f, <<f, 0>>, 1, 0)] @@
    \* directory "A": every file carries an InstanceNumber: 10, 2, 2 in listing
    \* order.  The header of file 1 reads, its pixel data cannot be decoded.
    1 :> Entry(<<1>>, TRUE, TRUE, TRUE, 10, FALSE, <<>>, TRUE, 1, TRUE, 0) @@
    2 :> Slice(<<3>>, 2, <<1, 4>>, 3, 5) @@
    3 :> Entry(<<2>>, TRUE, TRUE, TRUE, 2, TRUE, <<6, 0>>, TRUE, 2, FALSE, 0) @@
    \* directory "B": no file carries an InstanceNumber; the names are "2" and "10"
    4 :> Entry(<<2>>, TRUE, TRUE, FALSE, 0, TRUE, <<9, 2>>, FALSE, 0, TRUE, 4) @@
    5 :> Entry(<<1, 0>>, TRUE, TRUE, FALSE, 0, TRUE, <<5, 3>>, FALSE, 0, FALSE, 0) @@
    \* a text file and a subdirectory
    7 :> Entry(<<0>>, TRUE, FALSE, FALSE, 0, FALSE, <<>>, FALSE, 0, FALSE, 0) @@
    8 :> Entry(<<4>>, FALSE, FALSE, FALSE, 0, FALSE, <<>>, FALSE, 0, FALSE, 0) @@
    \* directory "M": one file with an InstanceNumber, one without
    9 :> Slice(<<5>>, 1, <<2, 2>>, 2, 1) @@
    10 :> Entry(<<6>>, TRUE, TRUE, FALSE, 0, TRUE, <<3, 1>>, FALSE, 0, FALSE, 0) @@
    \* directory "Z": one file, whose header gives a window of width 0
    11 :> Slice(<<7>>, 1, <<3, 1, 2>>, 1, 0)

\* os.listdir per directory, in the order the operating system returns it.
\* "E" holds no DICOM file; a path that is not in the table cannot be listed.
Listing ==
    [A |-> <<1, 2, 3>>, B |-> <<4, 7, 5, 8>>, M |-> <<9, 10>>, E |-> <<7>>,
     Z |-> <<11>>,
     L |-> [i \in 1 .. LongLen |-> 100 + i]]

\* The paths a caller passes to load(); "X" is not a readable directory.
Dirs == {"A", "B", "M", "E", "X"}

Readable(path) == path \in DOMAIN Listing

(***************************************************************************)
(* Helpers on sequences.                                                   *)
(***************************************************************************)

Range(s) == {s[i] : i \in DOMAIN s}

\* The permutations of a sequence (as sequences).
Perms(s) ==
    {p \in [DOMAIN s -> Range(s)] :
        \A x \in Range(s) :
            Cardinality({i \in DOMAIN s : p[i] = x})
                = Cardinality({i \in DOMAIN s : s[i] = x})}

\* Python's str comparison a < b: lexicographic on code points.
RECURSIVE LexLess(_, _)
LexLess(a, b) ==
    IF b = <<>> THEN FALSE
    ELSE IF a = <<>> THEN TRUE
    ELSE IF a[1] # b[1] THEN a[1] < b[1]
    ELSE LexLess(Tail(a), Tail(b))


(***************************************************************************)
(* DicomVolume (viewer/models/dicom.py).                                   *)
(***************************************************************************)

\* How many DicomVolume objects the model creates.
NVolumes == 1

Volumes == 1 .. NVolumes

VARIABLES
    files,          \* files[v]: self._files of volume v, a sequence of file ids
    current_ds,     \* current_ds[v]: the file whose header is self._current_ds, 0 for None
    cache,          \* the lru_cache of _read_pixel_data: entries [self, index, val],
                    \* least recently used first.  The decorator is applied to the
                    \* function in the class body, so the one cache serves every
                    \* volume, keyed by (self, index).
    loaded,         \* loaded[v]: the path of v's most recent load() if it returned,
                    \* "failed" if it raised, "none" before any load
    stale,          \* stale[v]: the slice indices of v that were cached when its most
                    \* recent load() began (history, read by no operation)
    ret             \* the most recent call and what it returned or raised

None == 0

\* A call's outcome: err is the exception raised ("" when the call returned),
\* val the array returned, hit whether _read_pixel_data was served by the cache.
NoCall ==
    [op |-> "none", self |-> 0, path |-> "", index |-> -1, err |-> "",
     val |-> <<>>, hit |-> FALSE]

Returned(op, v, path, index, val, hit) ==
    [op |-> op, self |-> v, path |-> path, index |-> index, err |-> "",
     val |-> val, hit |-> hit]

Raised(op, v, path, index, err) ==
    [op |-> op, self |-> v, path |-> path, index |-> index, err |-> err,
     val |-> <<>>, hit |-> FALSE]

\* load(), lines 26-30: the regular files of the directory, in listing order.
Candidates(path) == SelectSeq(Listing[path], LAMBDA f : FS[f].isfile)

\* A filter that keeps every regular file of the directory.
FilterNothing(cands) == cands

\* load(), line 32: the candidates that pydicom.misc.is_dicom accepts.
FilterDicom(cands) == SelectSeq(cands, LAMBDA f : FS[f].dicom)

\* A sort key that is the basename for every file.
sort_key_basename(f) == [type |-> "str", n |-> 0, s |-> FS[f].name]

\* _sort_files.sort_key: int(ds.InstanceNumber), or the basename when the header
\* cannot be read or holds no InstanceNumber.
sort_key(f) ==
    IF FS[f].header /\ FS[f].hasInum
    THEN [type |-> "int", n |-> FS[f].inum, s |-> <<>>]
    ELSE [type |-> "str", n |-> 0, s |-> FS[f].name]

\* Python's k1 < k2 on two keys of one type.
KeyLess(k1, k2) ==
    IF k1.type = "int" THEN k1.n < k2.n ELSE LexLess(k1.s, k2.s)

\* list.sort compares an int key with a str key as soon as both occur: TypeError.
Comparable(fs) == \A i, j \in DOMAIN fs : sort_key(fs[i]).type = sort_key(fs[j]).type

\* self._files.sort(key=sort_key): list.sort is stable, so the element at
\* position i goes behind the elements with a smaller key and behind the
\* earlier elements with an equal key.
SortFiles(fs) ==
    LET Before(j, i) ==
            \/ KeyLess(sort_key(fs[j]), sort_key(fs[i]))
            \/ /\ ~KeyLess(sort_key(fs[i]), sort_key(fs[j]))
               /\ j < i
        Rank(i) == 1 + Cardinality({j \in DOMAIN fs : Before(j, i)})
    IN  [r \in 1 .. Len(fs) |-> fs[CHOOSE i \in DOMAIN fs : Rank(i) = r]]

\* A load() that leaves the cache as it is.
cache_kept(c) == c

\* self._read_pixel_data.cache_clear(), the first statement of load().
cache_clear(c) == <<>>

\* The position of key (v, index) in the cache, 0 when it is not cached.
CachePos(c, v, index) ==
    IF \E p \in DOMAIN c : c[p].self = v /\ c[p].index = index
    THEN CHOOSE p \in DOMAIN c : c[p].self = v /\ c[p].index = index
    ELSE 0

\* A cache hit that leaves the order of the entries as it is (first in, first
\* out).
FifoTouch(c, p) == c

\* A cache hit: the entry becomes the most recently used.
LruTouch(c, p) ==
    SubSeq(c, 1, p - 1) \o SubSeq(c, p + 1, Len(c)) \o <<c[p]>>

\* A cache miss that decoded val: the entry is added as the most recently used,
\* and the least recently used one leaves when the cache is full.
LruPut(c, v, index, val) ==
    LET e == [self |-> v, index |-> index, val |-> val]
    IN  IF Len(c) >= maxsize THEN Tail(c) \o <<e>> ELSE c \o <<e>>

\* A rescale that multiplies by the slope and leaves the intercept out.
RescaleSlopeOnly(img, f) ==
    IF FS[f].hasSlope /\ FS[f].hasIcpt
    THEN [k \in DOMAIN img |-> img[k] * FS[f].slope]
    ELSE img

\* get_slice, lines 55-56: img * RescaleSlope + RescaleIntercept when the
\* header of file f holds both tags.
Rescale(img, f) ==
    IF FS[f].hasSlope /\ FS[f].hasIcpt
    THEN [k \in DOMAIN img |-> img[k] * FS[f].slope + FS[f].icpt]
    ELSE img

\* The entries of the cache that belong to volume v, least recently used first.
CacheOf(c, v) == SelectSeq(c, LAMBDA e : e.self = v)

\* The largest slice index a caller passes to get_slice.
MaxIndex == 2

\* A get_slice whose failed decode empties the cache.
get_slice_forgetful(c, fl, v, index) ==
    LET f == fl[index + 1]
        p == CachePos(c, v, index)
    IN  IF index + 1 \notin DOMAIN fl
        THEN [ok |-> FALSE, cache |-> c, ds |-> None,
              ret |-> Raised("get_slice", v, "", index, "IndexError")]
        ELSE IF p = 0 /\ ~FS[f].pixok
        THEN [ok |-> FALSE, cache |-> <<>>, ds |-> None,
              ret |-> Raised("get_slice", v, "", index, "DecodeError")]
        ELSE LET img == IF p = 0 THEN FS[f].pix ELSE c[p].val
             IN  [ok |-> TRUE,
                  cache |-> IF p = 0 THEN LruPut(c, v, index, img) ELSE LruTouch(c, p),
                  ds |-> f,
                  ret |-> Returned("get_slice", v, "", index, Rescale(img, f), p # 0)]

\* DicomVolume.get_slice(index) on volume v, whose file list is fl, with the
\* cache c: what it returns or raises, the cache it leaves and the file whose
\* header becomes self._current_ds (None: not assigned).
get_slice(c, fl, v, index) ==
    LET f == fl[index + 1]
        p == CachePos(c, v, index)
    IN  IF index + 1 \notin DOMAIN fl
        THEN \* self._files[index] raises
             [ok |-> FALSE, cache |-> c, ds |-> None,
              ret |-> Raised("get_slice", v, "", index, "IndexError")]
        ELSE IF p = 0 /\ ~FS[f].pixok
        THEN \* _read_pixel_data raises: nothing is cached, nothing assigned
             [ok |-> FALSE, cache |-> c, ds |-> None,
              ret |-> Raised("get_slice", v, "", index, "DecodeError")]
        ELSE LET img == IF p = 0 THEN FS[f].pix ELSE c[p].val
             IN  [ok |-> TRUE,
                  cache |-> IF p = 0 THEN LruPut(c, v, index, img) ELSE LruTouch(c, p),
                  ds |-> f,
                  ret |-> Returned("get_slice", v, "", index, Rescale(img, f), p # 0)]

(***************************************************************************)
(* The header of the current slice (dicom.py, lines 67-92).                *)
(***************************************************************************)

\* A text tag of a header: <<>> when the header does not hold the tag, else the
\* one value.  A window tag: absent, one number, a MultiValue of numbers, an
\* empty value (None), or a text that is no number.
Absent == [kind |-> "absent", vals |-> <<>>]
Scalar(x) == [kind |-> "scalar", vals |-> <<x>>]
Multi(xs) == [kind |-> "multi", vals |-> xs]
Empty == [kind |-> "empty", vals |-> <<>>]
Text(t) == [kind |-> "text", vals |-> <<>>, text |-> t]

NoTags ==
    [PatientID |-> <<>>, PatientAge |-> <<>>, Modality |-> <<>>,
     SeriesDescription |-> <<>>, WindowCenter |-> Absent, WindowWidth |-> Absent]

\* The tags of the headers of the files.
Tags ==
    [f \in DOMAIN FS |->
        CASE f = 1 -> [NoTags EXCEPT !.PatientID = <<"P0">>]
          [] f = 2 -> [PatientID |-> <<"P1">>, PatientAge |-> <<"030Y">>,
                       Modality |-> <<"CT">>, SeriesDescription |-> <<"HEAD">>,
                       WindowCenter |-> Scalar(40), WindowWidth |-> Scalar(400)]
          [] f = 3 -> [NoTags EXCEPT !.PatientID = <<"P1">>, !.Modality = <<"">>,
                                     !.WindowCenter = Multi(<<50, 60>>),
                                     !.WindowWidth = Multi(<<350, 2>>)]
          [] f = 4 -> [NoTags EXCEPT !.Modality = <<"MR">>,
                                     !.WindowCenter = Scalar(30)]
          [] f = 5 -> [NoTags EXCEPT !.PatientID = <<"P2">>,
                                     !.WindowCenter = Text("abc"),
                                     !.WindowWidth = Scalar(80)]
          [] f = 9 -> [NoTags EXCEPT !.WindowCenter = Empty,
                                     !.WindowWidth = Scalar(100)]
          [] f = 10 -> [NoTags EXCEPT !.WindowCenter = Scalar(20),
                                      !.WindowWidth = Multi(<<>>)]
          [] f = 11 -> [NoTags EXCEPT !.WindowCenter = Scalar(40),
                                      !.WindowWidth = Scalar(0)]
          [] OTHER -> NoTags]

\* get_metadata(): self._current_ds, the file whose header it is (None: None).
get_metadata(v) == current_ds[v]

InfoKeys == {"Patient ID", "Patient Age", "Modality", "Series Description"}

EmptyMapping == [k \in {} |-> ""]

\* A lookup whose default is the empty text.
TagOrEmpty(t) == IF t = <<>> THEN "" ELSE t[1]

\* str(ds.get(tag, "N/A")).
TagOrNA(t) == IF t = <<>> THEN "N/A" ELSE t[1]

\* get_info_summary().
get_info_summary(v) ==
    IF current_ds[v] = None THEN EmptyMapping
    ELSE LET ds == Tags[current_ds[v]]
         IN  [k \in InfoKeys |->
                 CASE k = "Patient ID" -> TagOrNA(ds.PatientID)
                   [] k = "Patient Age" -> TagOrNA(ds.PatientAge)
                   [] k = "Modality" -> TagOrNA(ds.Modality)
                   [] k = "Series Description" -> TagOrNA(ds.SeriesDescription)]

\* float(ds.X if not isinstance(ds.X, MultiValue) else ds.X[0]): the value, or
\* the exception the expression raises.
WindowValue(t) ==
    CASE t.kind = "absent" -> [err |-> "AttributeError", val |-> 0]
      [] t.kind = "scalar" -> [err |-> "", val |-> t.vals[1]]
      [] t.kind = "multi" ->
            IF t.vals = <<>> THEN [err |-> "IndexError", val |-> 0]
            ELSE [err |-> "", val |-> t.vals[1]]
      [] t.kind = "empty" -> [err |-> "TypeError", val |-> 0]
      [] t.kind = "text" -> [err |-> "ValueError", val |-> 0]

\* The exceptions get_window_defaults catches.
Caught == {"AttributeError", "TypeError", "IndexError"}

NoWindow == [err |-> "", none |-> TRUE, center |-> 0, width |-> 0]

\* get_window_defaults() when self._current_ds is the header of file ds (None:
\* None): (center, width), (None, None), or the exception that leaves the method.
WindowDefaultsOf(ds) ==
    IF ds = None THEN NoWindow
    ELSE LET c == WindowValue(Tags[ds].WindowCenter)
             w == WindowValue(Tags[ds].WindowWidth)
             e == IF c.err # "" THEN c.err ELSE w.err
         IN  IF e = "" THEN [err |-> "", none |-> FALSE, center |-> c.val, width |-> w.val]
             ELSE IF e \in Caught THEN NoWindow
             ELSE [err |-> e, none |-> FALSE, center |-> 0, width |-> 0]

get_window_defaults(v) == WindowDefaultsOf(current_ds[v])

(***************************************************************************)
(* NiftiVolume (viewer/models/nifti.py).                                   *)
(***************************************************************************)

\* The NIfTI files: the shape of the stored array and the stored axis that
\* each axis of the closest canonical (RAS) orientation is.  A path that is
\* not among them cannot be read.
NiftiFS ==
    [N3 |-> [shape |-> <<2, 3, 4>>, ornt |-> <<1, 2, 3>>],
     NR |-> [shape |-> <<3, 2, 2>>, ornt |-> <<2, 1, 3>>],
     NS |-> [shape |-> <<4, 2, 3>>, ornt |-> <<3, 1, 2>>],
     N2 |-> [shape |-> <<2, 3>>, ornt |-> <<1, 2>>],
     N4 |-> [shape |-> <<2, 3, 2, 2>>, ornt |-> <<1, 2, 3, 4>>]]

NiftiPaths == {"N3", "NR", "NS", "N2", "N4", "NX"}

\* The largest extent of an axis of the arrays.
MaxExtent == 4

\* The index tuples of an array of the given shape.
Coords(shape) ==
    {c \in [DOMAIN shape -> 0 .. MaxExtent - 1] :
        \A k \in DOMAIN shape : c[k] < shape[k]}

\* The value the file stores at an index tuple of its array.
RECURSIVE Stored(_)
Stored(c) == IF c = <<>> THEN 0 ELSE Head(c) + 10 * Stored(Tail(c))

\* self._data is None.
NoArray == [shape |-> <<>>, val |-> <<>>]

\* self._img is None.
NoImage == ""

\* nib.as_closest_canonical(img).get_fdata(): the axes of the stored array
\* reordered to the canonical orientation.
Canonical(path) ==
    LET f == NiftiFS[path]
        shape == [k \in DOMAIN f.shape |-> f.shape[f.ornt[k]]]
    IN  [shape |-> shape,
         val |-> [c \in Coords(shape) |->
                     Stored([k \in DOMAIN c |->
                               c[CHOOSE m \in DOMAIN c : f.ornt[m] = k]])]]

ndim(a) == Len(a.shape)

\* a[tuple(slicing)] with slicing[axis] = index and slice(None) elsewhere, for
\* an array of three or more axes and an index inside the axis.
Cut(a, index, axis) ==
    LET pos == axis + 1
        shape == SubSeq(a.shape, 1, pos - 1) \o SubSeq(a.shape, pos + 1, Len(a.shape))
    IN  [shape |-> shape,
         val |-> [c \in Coords(shape) |->
                     a.val[SubSeq(c, 1, pos - 1) \o <<index>> \o SubSeq(c, pos, Len(c))]]]

\* np.rot90(m): the first two axes rotated by 90 degrees, counterclockwise.
rot90(m) ==
    LET shape == <<m.shape[2], m.shape[1]>> \o SubSeq(m.shape, 3, Len(m.shape))
    IN  [shape |-> shape,
         val |-> [c \in Coords(shape) |->
                     m.val[<<c[2], m.shape[2] - 1 - c[1]>> \o SubSeq(c, 3, Len(c))]]]

NiftiNoCall ==
    [op |-> "none", self |-> None, path |-> "", index |-> -1, axis |-> -1,
     err |-> "", n |-> -1, val |-> NoArray]

\* NiftiVolume.get_slice(index, axis) on the array d: what it returns or
\* raises.
nifti_get_slice(d, v, index, axis) ==
    LET r == [NiftiNoCall EXCEPT !.op = "get_slice", !.self = v,
                                 !.index = index, !.axis = axis]
    IN  IF d = NoArray THEN [r EXCEPT !.err = "TypeError"]
        ELSE IF ndim(d) < 3 \/ index >= d.shape[axis + 1]
        THEN [r EXCEPT !.err = "IndexError"]
        ELSE [r EXCEPT !.val = rot90(Cut(d, index, axis))]

\* NiftiVolume.num_slices(axis) on the array d.
nifti_num_slices(d, v, axis) ==
    LET r == [NiftiNoCall EXCEPT !.op = "num_slices", !.self = v, !.axis = axis]
    IN  IF d = NoArray THEN [r EXCEPT !.err = "AttributeError"]
        ELSE IF axis >= ndim(d) THEN [r EXCEPT !.err = "IndexError"]
        ELSE [r EXCEPT !.n = d.shape[axis + 1]]

(***************************************************************************)
(* ViewerController (viewer/controllers/viewer.py): the session.           *)
(***************************************************************************)

\* How many loads a session starts.
MaxLoads == 2

\* The directories the user opens.
SessionDirs == {"A", "B", "E"}

VARIABLES
    model,          \* self._model: the active volume, None before the first handoff
    current_slice,  \* self._current_slice
    loading,        \* the toolbar's loading state: set_loading(True) disabled the buttons
    jobs,           \* the loads started, in the order they were started; job j runs
                    \* _load_directory_bg on a thread of its own and creates volume j
    queue,          \* the callbacks posted with root.after(0, ...), oldest first
    shown,          \* the slice the canvas displays
    cb,             \* the display thread's most recent callback, and the exception
                    \* that left it (Tk reports it and goes on with the main loop)
    window,         \* self._window_center and self._window_width; none: both are None
    slider_to       \* the upper end of the range of each slider: the main slider
                    \* (Single) and the sliders of the three panels

VARIABLES
    img,            \* NiftiVolume._img of each NiftiVolume: the file it was read from
    data,           \* NiftiVolume._data of each NiftiVolume: the array, None before a load
    nret            \* the most recent call on a NiftiVolume: what it returned or raised

VARIABLES
    is_multi_axis,  \* self._is_multi_axis
    multi_canvas,   \* self._multi_canvas has been created
    axis_slices,    \* self._axis_slices
    zoom,           \* the zoom factor of each panel, in units of 1 / ZoomUnit
    offset,         \* the pan offset <<x, y>> of each panel
    gestures,       \* how many scroll, drag and slider gestures the user has made
    geometry,       \* the layout of the window, which gives each canvas the size
                    \* winfo_width() x winfo_height() reports
    source,         \* the size of the source image each panel holds, NoSize: none
    photo,          \* the image each panel has drawn: its size, and the size the
                    \* canvas had when it was drawn
    coords          \* what the most recent _canvas_to_image returned

VARIABLES
    arg,            \* the arguments of a call of a function of viewer/utils
    out             \* what the call returned

dicomVars == <<files, current_ds, cache, loaded, stale, ret>>

niftiVars == <<img, data, nret>>

canvasVars == <<geometry, source, photo, coords>>

panelVars == <<is_multi_axis, multi_canvas, axis_slices, zoom, offset, gestures>>

viewVars == <<panelVars, canvasVars>>

controlVars == <<window, slider_to>>

sessionVars == <<model, current_slice, loading, jobs, queue, shown, cb, controlVars>>

utilVars == <<arg, out>>

vars == <<files, current_ds, cache, loaded, stale, ret,
          model, current_slice, loading, jobs, queue, shown, cb,
          img, data, nret,
          is_multi_axis, multi_canvas, axis_slices, zoom, offset, gestures,
          window, slider_to, geometry, source, photo, coords, arg, out>>

NothingShown == [vol |-> None, index |-> -1, val |-> <<>>]

NoCallback == [fn |-> "none", err |-> ""]

\* The "Auto" window: self._window_center and self._window_width are None.
Auto == [none |-> TRUE, center |-> 0, width |-> 0]

\* The state after ViewerController.__init__, with no volume created yet.
SessionInit ==
    /\ model = None
    /\ current_slice = 0
    /\ loading = FALSE
    /\ jobs = <<>>
    /\ queue = <<>>
    /\ shown = NothingShown
    /\ cb = NoCallback
    /\ window = Auto
    /\ slider_to = [p \in {0, 1, 2, 3} |-> 0]

\* The DicomVolume objects vs after DicomVolume.__init__.
VolumesInit(vs) ==
    /\ files = [v \in vs |-> <<>>]
    /\ current_ds = [v \in vs |-> None]
    /\ cache = <<>>
    /\ loaded = [v \in vs |-> "none"]
    /\ stale = [v \in vs |-> {}]
    /\ ret = NoCall

\* The NiftiVolume objects vs after NiftiVolume.__init__.
NiftiInit(vs) ==
    /\ img = [v \in vs |-> NoImage]
    /\ data = [v \in vs |-> NoArray]
    /\ nret = NiftiNoCall

\* The zoom factor 1.0.
ZoomUnit == 1000

\* The panels: 0, 1, 2 are the panels of the MultiAxisCanvas for the axes, and
\* Single is the ImageCanvas.
Single == 3

Panels == {0, 1, 2, Single}

\* No image: self._source_image is None.
NoSize == <<0, 0>>

\* self._photo is None: the canvas has drawn nothing.
NoPhoto == [size |-> NoSize, canvas |-> NoSize]

\* _canvas_to_image has not been called.
NoCoords == [at |-> <<0, 0>>, none |-> TRUE, x |-> 0, y |-> 0]

\* The views after ViewerController.__init__: no widget has been laid out.
ViewInit ==
    /\ is_multi_axis = FALSE
    /\ multi_canvas = FALSE
    /\ axis_slices = <<0, 0, 0>>
    /\ zoom = [p \in Panels |-> ZoomUnit]
    /\ offset = [p \in Panels |-> <<0, 0>>]
    /\ gestures = 0
    /\ geometry = "unmapped"
    /\ source = [p \in Panels |-> NoSize]
    /\ photo = [p \in Panels |-> NoPhoto]
    /\ coords = NoCoords

\* No call of a function of viewer/utils.
NoArg == [img |-> NoSize, box |-> NoSize, data |-> <<>>, center |-> 0, width |-> 0]

NoOut == [fn |-> "none", size |-> NoSize, data |-> <<>>]

UtilInit == arg = NoArg /\ out = NoOut

Init == VolumesInit(Volumes) /\ SessionInit /\ NiftiInit(Volumes) /\ ViewInit /\ UtilInit

\* DicomVolume.load(path) on volume v.
Load(v, path) ==
    /\ cache' = cache_clear(cache)
    /\ stale' = [stale EXCEPT ![v] = {e.index : e \in Range(CacheOf(cache, v))}]
    /\ UNCHANGED current_ds
    /\ IF ~Readable(path)
       THEN \* os.listdir raises
            /\ UNCHANGED files
            /\ loaded' = [loaded EXCEPT ![v] = "failed"]
            /\ ret' = Raised("load", v, path, -1, "OSError")
       ELSE LET dicoms == FilterDicom(Candidates(path))
            IN  IF dicoms = <<>>
                THEN /\ files' = [files EXCEPT ![v] = dicoms]
                     /\ loaded' = [loaded EXCEPT ![v] = "failed"]
                     /\ ret' = Raised("load", v, path, -1, "FileNotFoundError")
                ELSE IF Comparable(dicoms)
                THEN /\ files' = [files EXCEPT ![v] = SortFiles(dicoms)]
                     /\ loaded' = [loaded EXCEPT ![v] = path]
                     /\ ret' = Returned("load", v, path, -1, <<>>, FALSE)
                ELSE \* the sort raises and leaves the list in some order
                     /\ \E p \in Perms(dicoms) : files' = [files EXCEPT ![v] = p]
                     /\ loaded' = [loaded EXCEPT ![v] = "failed"]
                     /\ ret' = Raised("load", v, path, -1, "TypeError")

\* A caller's volume.load(path).
CallLoad(v, path) ==
    Load(v, path) /\ UNCHANGED <<sessionVars, niftiVars, viewVars, utilVars>>

\* A caller's volume.get_slice(index), for an index of the file list.
CallGetSlice(v, index) ==
    /\ index \in 0 .. Len(files[v]) - 1
    /\ LET r == get_slice(cache, files[v], v, index)
       IN  /\ cache' = r.cache
           /\ current_ds' = IF r.ok THEN [current_ds EXCEPT ![v] = r.ds] ELSE current_ds
           /\ ret' = r.ret
    /\ UNCHANGED <<files, loaded, stale>>
    /\ UNCHANGED <<sessionVars, niftiVars, viewVars, utilVars>>

Next ==
    \/ \E v \in DOMAIN files, path \in Dirs : CallLoad(v, path)
    \/ \E v \in DOMAIN files, index \in 0 .. MaxIndex : CallGetSlice(v, index)

\* DicomVolume objects under arbitrary callers.
Spec == Init /\ [][Next]_vars

(***************************************************************************)
(* NiftiVolume objects under arbitrary callers.                            *)
(***************************************************************************)

\* The largest index a caller passes to NiftiVolume.get_slice.
MaxNiftiIndex == 4

\* NiftiVolume.load(path) on volume v.
NiftiLoad(v, path) ==
    LET r == [NiftiNoCall EXCEPT !.op = "load", !.self = v, !.path = path]
    IN  IF path \notin DOMAIN NiftiFS
        THEN \* nib.load raises
             /\ nret' = [r EXCEPT !.err = "FileNotFoundError"]
             /\ UNCHANGED <<img, data>>
        ELSE /\ img' = [img EXCEPT ![v] = path]
             /\ data' = [data EXCEPT ![v] = Canonical(path)]
             /\ nret' = IF ndim(Canonical(path)) < 3
                        THEN [r EXCEPT !.err = "ValueError"]
                        ELSE r

CallNiftiLoad(v, path) ==
    NiftiLoad(v, path) /\ UNCHANGED <<dicomVars, sessionVars, viewVars, utilVars>>

CallNiftiGetSlice(v, index, axis) ==
    /\ nret' = nifti_get_slice(data[v], v, index, axis)
    /\ UNCHANGED <<img, data, dicomVars, sessionVars, viewVars, utilVars>>

CallNiftiNumSlices(v, axis) ==
    /\ nret' = nifti_num_slices(data[v], v, axis)
    /\ UNCHANGED <<img, data, dicomVars, sessionVars, viewVars, utilVars>>

NextNifti ==
    \/ \E v \in DOMAIN img, path \in NiftiPaths : CallNiftiLoad(v, path)
    \/ \E v \in DOMAIN img, index \in 0 .. MaxNiftiIndex, axis \in 0 .. 2 :
          CallNiftiGetSlice(v, index, axis)
    \/ \E v \in DOMAIN img, axis \in 0 .. 2 : CallNiftiNumSlices(v, axis)

InitNifti == VolumesInit({1}) /\ SessionInit /\ NiftiInit({1}) /\ ViewInit /\ UtilInit

SpecNifti == InitNifti /\ [][NextNifti]_vars

(***************************************************************************)
(* The session's operations.                                               *)
(***************************************************************************)

Handoff(j) == [fn |-> "on_directory_loaded", vol |-> j]

\* open_directory(directory): the toolbar is put in its loading state and a
\* thread is started for _load_directory_bg.
open_directory(path) ==
    /\ Len(jobs) < MaxLoads
    /\ loading' = TRUE
    /\ jobs' = Append(jobs, [kind |-> "dicom", path |-> path, state |-> "running"])
    /\ UNCHANGED <<model, current_slice, queue, shown, cb, controlVars>>
    /\ UNCHANGED <<dicomVars, niftiVars, viewVars, utilVars>>

\* The toolbar's Open Dir button: set_loading(True) disabled it.
ButtonOpenDir(path) == ~loading /\ open_directory(path)

\* Control-o and the File menu call open_directory whatever the loading state.
KeyOpenDir(path) == open_directory(path)

\* _load_directory_bg on job j's thread: a new DicomVolume, its load(), and the
\* callbacks posted to the display thread.
load_directory_bg(j) ==
    /\ j \in DOMAIN jobs
    /\ jobs[j].kind = "dicom"
    /\ jobs[j].state = "running"
    /\ Load(j, jobs[j].path)
    /\ IF ret'.err = ""
       THEN /\ queue' = Append(queue, Handoff(j))
            /\ jobs' = [jobs EXCEPT ![j].state = "posted"]
       ELSE /\ queue' = queue \o <<[fn |-> "showerror", vol |-> j],
                                   [fn |-> "set_loading", vol |-> j],
                                   [fn |-> "status", vol |-> j]>>
            /\ jobs' = [jobs EXCEPT ![j].state = "failed"]
    /\ UNCHANGED <<model, current_slice, loading, shown, cb, controlVars>>
    /\ UNCHANGED <<niftiVars, viewVars, utilVars>>

\* num_slices() of the DicomVolume v.
num_slices(v) == Len(files[v])

\* The layouts of the window: the widgets have not been laid out, a small
\* window, and the window of app.py.
Geometries == {"unmapped", "small", "large"}

\* winfo_width() x winfo_height() of the canvas of panel p under a layout.
CanvasSize(g, p) ==
    CASE g = "unmapped" -> <<1, 1>>
      [] g = "small" -> IF p = Single THEN <<8, 6>> ELSE <<4, 6>>
      [] g = "large" -> IF p = Single THEN <<900, 650>> ELSE <<300, 600>>

\* The size of the canvas of panel p now: the canvases of a MultiAxisCanvas
\* that is yet to be created are laid out after the handler that creates it.
PanelSize(p) ==
    IF p # Single /\ ~multi_canvas THEN <<1, 1>> ELSE CanvasSize(geometry, p)

Max(a, b) == IF a >= b THEN a ELSE b

\* resize_to_fit(img, max_w, max_h) for an image of the given size: the size
\* of the image it returns.
resize_to_fit(size, max_w, max_h) ==
    LET w == size[1]
        h == size[2]
    IN  IF max_w <= 0 \/ max_h <= 0 \/ w <= 0 \/ h <= 0 THEN size
        ELSE LET h1 == (max_w * h) \div w
                 new_h == IF h1 > max_h THEN max_h ELSE h1
                 new_w == IF h1 > max_h THEN (max_h * w) \div h ELSE max_w
             IN  IF new_w <= 0 \/ new_h <= 0 THEN size ELSE <<new_w, new_h>>

\* The image of a canvas that was drawn, and the size the canvas had.
Photo(size, canvas) == [size |-> size, canvas |-> canvas]

\* _render() and _render_axis(axis): the photo of a canvas of the given size
\* that holds the source image src at zoom z; old is the photo it had.
Rendered(old, src, canvas, z) ==
    IF src = NoSize \/ canvas[1] <= 1 \/ canvas[2] <= 1 THEN old
    ELSE IF z = ZoomUnit THEN Photo(resize_to_fit(src, canvas[1], canvas[2]), canvas)
    ELSE Photo(<<Max(1, (src[1] * z) \div ZoomUnit),
                 Max(1, (src[2] * z) \div ZoomUnit)>>, canvas)

\* Image.fromarray(rgb).size for a slice of a DicomVolume, one row of pixels,
\* and for a slice of a NiftiVolume, an array of rows x columns.
RowSize(val) == <<Len(val), 1>>

ArraySize(a) == <<a.shape[2], a.shape[1]>>

\* _render_slice for the DICOM view: get_slice(current_slice), then the canvas
\* displays the array.  The successor of the volume state and of shown, cb.
RenderSlice(fn, v, index) ==
    LET r == get_slice(cache, files[v], v, index)
    IN  /\ cache' = r.cache
        /\ ret' = r.ret
        /\ current_ds' = IF r.ok THEN [current_ds EXCEPT ![v] = r.ds] ELSE current_ds
        /\ shown' = IF r.ok THEN [vol |-> v, index |-> index, val |-> r.ret.val] ELSE shown
        /\ source' = IF r.ok THEN [source EXCEPT ![Single] = RowSize(r.ret.val)]
                      ELSE source
        /\ photo' = IF r.ok
                     THEN [photo EXCEPT ![Single] =
                              Rendered(@, RowSize(r.ret.val), PanelSize(Single),
                                       zoom[Single])]
                     ELSE photo
        /\ cb' = [fn |-> fn, err |-> r.ret.err]
        /\ UNCHANGED <<files, loaded, stale>>

\* _on_directory_loaded(model, path), the handoff, on the display thread.
on_directory_loaded ==
    /\ queue # <<>>
    /\ Head(queue).fn = "on_directory_loaded"
    /\ LET v == Head(queue).vol
           first == get_slice(cache, files[v], v, 0)
       IN  /\ model' = v
           /\ current_slice' = 0
           /\ jobs' = [jobs EXCEPT ![v].state = "delivered"]
           /\ IF ~first.ok
              THEN \* model.get_slice(0) raises: the rest of the handler is not run
                   /\ cache' = first.cache
                   /\ ret' = first.ret
                   /\ cb' = [fn |-> "on_directory_loaded", err |-> first.ret.err]
                   /\ UNCHANGED <<files, current_ds, loaded, stale, loading, shown>>
                   /\ UNCHANGED <<window, slider_to, source, photo>>
              ELSE IF WindowDefaultsOf(first.ds).err # ""
              THEN \* model.get_window_defaults() raises
                   /\ cache' = first.cache
                   /\ ret' = first.ret
                   /\ current_ds' = [current_ds EXCEPT ![v] = first.ds]
                   /\ cb' = [fn |-> "on_directory_loaded",
                             err |-> WindowDefaultsOf(first.ds).err]
                   /\ UNCHANGED <<files, loaded, stale, loading, shown>>
                   /\ UNCHANGED <<window, slider_to, source, photo>>
              ELSE \* the window of the header, _update_slider, then _render_slice
                   \* reads slice 0 again, then set_loading(False)
                   LET again == get_slice(first.cache, files[v], v, 0)
                       w == WindowDefaultsOf(first.ds)
                   IN  /\ window' = [none |-> w.none, center |-> w.center,
                                     width |-> w.width]
                       /\ slider_to' = [slider_to EXCEPT ![Single] = num_slices(v) - 1]
                       /\ cache' = again.cache
                       /\ ret' = again.ret
                       /\ current_ds' = [current_ds EXCEPT ![v] = again.ds]
                       /\ shown' = [vol |-> v, index |-> 0, val |-> again.ret.val]
                       /\ source' = [source EXCEPT ![Single] = RowSize(again.ret.val)]
                       /\ photo' = [photo EXCEPT ![Single] =
                                       Rendered(@, RowSize(again.ret.val),
                                                PanelSize(Single), zoom[Single])]
                       /\ cb' = [fn |-> "on_directory_loaded", err |-> again.ret.err]
                       /\ loading' = FALSE
                       /\ UNCHANGED <<files, loaded, stale>>
    /\ queue' = Tail(queue)
    /\ is_multi_axis' = FALSE
    /\ UNCHANGED <<multi_canvas, axis_slices, zoom, offset, gestures>>
    /\ UNCHANGED <<geometry, coords, niftiVars, utilVars>>

\* The three callbacks a failed load posts.
showerror ==
    /\ queue # <<>>
    /\ Head(queue).fn = "showerror"
    /\ queue' = Tail(queue)
    /\ cb' = [fn |-> "showerror", err |-> ""]
    /\ UNCHANGED <<model, current_slice, loading, jobs, shown, controlVars>>
    /\ UNCHANGED <<dicomVars, niftiVars, viewVars, utilVars>>

set_loading_false ==
    /\ queue # <<>>
    /\ Head(queue).fn = "set_loading"
    /\ queue' = Tail(queue)
    /\ loading' = FALSE
    /\ cb' = [fn |-> "set_loading", err |-> ""]
    /\ UNCHANGED <<model, current_slice, jobs, shown, controlVars>>
    /\ UNCHANGED <<dicomVars, niftiVars, viewVars, utilVars>>

status_load_failed ==
    /\ queue # <<>>
    /\ Head(queue).fn = "status"
    /\ queue' = Tail(queue)
    /\ cb' = [fn |-> "status", err |-> ""]
    /\ UNCHANGED <<model, current_slice, loading, jobs, shown, controlVars>>
    /\ UNCHANGED <<dicomVars, niftiVars, viewVars, utilVars>>

\* _apply_pipeline(raw): normalisation and colormap give an RGB array, and
\* Image.fromarray takes it only when raw has two axes.
PipelineError(raw) == IF ndim(raw) = 2 THEN "" ELSE "TypeError"

\* _render_single_axis(axis, index) on the NiftiVolume v.
RenderSingleAxis(fn, v, axis, index) ==
    LET r == nifti_get_slice(data[v], v, index, axis)
        e == IF r.err # "" THEN r.err ELSE PipelineError(r.val)
    IN  /\ nret' = r
        /\ source' = IF e = "" THEN [source EXCEPT ![axis] = ArraySize(r.val)]
                      ELSE source
        /\ photo' = IF e = ""
                     THEN [photo EXCEPT ![axis] =
                              Rendered(@, ArraySize(r.val), PanelSize(axis), zoom[axis])]
                     ELSE photo
        /\ cb' = [fn |-> fn, err |-> e]

\* _render_all_axes() on the NiftiVolume v with the slice indices idx: the
\* panels are rendered in the order 0, 1, 2 until one raises.
RenderAllAxes(fn, v, idx) ==
    LET r(axis) == nifti_get_slice(data[v], v, idx[axis + 1], axis)
        e(axis) == IF r(axis).err # "" THEN r(axis).err ELSE PipelineError(r(axis).val)
        last == IF e(0) # "" THEN 0 ELSE IF e(1) # "" THEN 1 ELSE 2
        drawn == {p \in 0 .. last : e(p) = ""}
    IN  /\ nret' = r(last)
        /\ source' = [p \in Panels |->
                         IF p \in drawn THEN ArraySize(r(p).val) ELSE source[p]]
        /\ photo' = [p \in Panels |->
                        IF p \in drawn
                        THEN Rendered(photo[p], ArraySize(r(p).val), PanelSize(p),
                                      zoom[p])
                        ELSE photo[p]]
        /\ cb' = [fn |-> fn, err |-> e(last)]

\* num_slices(self._current_axis) of the active volume; _current_axis is 2.
ModelNumSlices ==
    IF jobs[model].kind = "nifti" THEN nifti_num_slices(data[model], model, 2).n
    ELSE num_slices(model)

\* _step(delta), the Left and Right keys: a step that stays inside the stack,
\* or inside the axial axis in the multi-axis view.
step(delta) ==
    /\ model # None
    /\ IF is_multi_axis
       THEN LET new == axis_slices[3] + delta
            IN  /\ 0 <= new /\ new < nifti_num_slices(data[model], model, 2).n
                /\ axis_slices' = [axis_slices EXCEPT ![3] = new]
                /\ RenderSingleAxis("step", model, 2, new)
                /\ UNCHANGED <<current_slice, shown, img, data, dicomVars>>
                /\ UNCHANGED <<is_multi_axis, multi_canvas, zoom, offset, gestures>>
                /\ UNCHANGED <<geometry, coords>>
       ELSE LET new == current_slice + delta
            IN  /\ 0 <= new /\ new < num_slices(model)
                /\ current_slice' = new
                /\ RenderSlice("step", model, new)
                /\ UNCHANGED <<niftiVars, panelVars, geometry, coords>>
    /\ UNCHANGED <<model, loading, jobs, queue, controlVars, utilVars>>

\* _goto(index), the target clamped to the stack.
goto(index) ==
    /\ model # None
    /\ ModelNumSlices > 0
    /\ LET hi == ModelNumSlices - 1
           new == IF index < 0 THEN 0 ELSE IF index > hi THEN hi ELSE index
       IN  /\ current_slice' = new
           /\ IF is_multi_axis
              THEN /\ RenderAllAxes("goto", model, axis_slices)
                   /\ UNCHANGED <<shown, img, data, dicomVars>>
              ELSE /\ RenderSlice("goto", model, new)
                   /\ UNCHANGED niftiVars
    /\ UNCHANGED <<panelVars, geometry, coords>>
    /\ UNCHANGED <<model, loading, jobs, queue, controlVars, utilVars>>

\* The Home key.
KeyHome == goto(0)

\* _goto_end(), the End key.
goto_end == model # None /\ goto(ModelNumSlices - 1)

(***************************************************************************)
(* NIfTI files in the session, and the views.                              *)
(***************************************************************************)

\* open_file(file_path): as open_directory, with a thread for _load_file_bg.
open_file(path) ==
    /\ Len(jobs) < MaxLoads
    /\ loading' = TRUE
    /\ jobs' = Append(jobs, [kind |-> "nifti", path |-> path, state |-> "running"])
    /\ UNCHANGED <<model, current_slice, queue, shown, cb, controlVars>>
    /\ UNCHANGED <<dicomVars, niftiVars, viewVars, utilVars>>

\* The toolbar's Open File button.
ButtonOpenFile(path) == ~loading /\ open_file(path)

\* _load_file_bg on job j's thread: a new NiftiVolume, its load(), and the
\* callbacks posted to the display thread.
load_file_bg(j) ==
    /\ j \in DOMAIN jobs
    /\ jobs[j].kind = "nifti"
    /\ jobs[j].state = "running"
    /\ NiftiLoad(j, jobs[j].path)
    /\ IF nret'.err = ""
       THEN /\ queue' = Append(queue, [fn |-> "on_file_loaded", vol |-> j])
            /\ jobs' = [jobs EXCEPT ![j].state = "posted"]
       ELSE /\ queue' = queue \o <<[fn |-> "showerror", vol |-> j],
                                   [fn |-> "set_loading", vol |-> j],
                                   [fn |-> "status", vol |-> j]>>
            /\ jobs' = [jobs EXCEPT ![j].state = "failed"]
    /\ UNCHANGED <<model, current_slice, loading, shown, cb, controlVars>>
    /\ UNCHANGED <<dicomVars, viewVars, utilVars>>

\* The slice every panel starts at when nothing is computed from the volume.
FirstSlices(shape) == [k \in 1 .. 3 |-> 0]

\* {ax: model.num_slices(ax) // 2 for ax in (0, 1, 2)}.
MiddleSlices(shape) == [k \in 1 .. 3 |-> shape[k] \div 2]

\* _on_file_loaded(model, path), the handoff of a NiftiVolume: the multi-axis
\* view is set up with each axis at its middle slice, and the three panels
\* are rendered.
on_file_loaded ==
    /\ queue # <<>>
    /\ Head(queue).fn = "on_file_loaded"
    /\ LET v == Head(queue).vol
           mid == MiddleSlices(data[v].shape)
       IN  /\ model' = v
           /\ current_slice' = 0
           /\ jobs' = [jobs EXCEPT ![v].state = "delivered"]
           /\ axis_slices' = mid
           /\ multi_canvas' = TRUE
           /\ is_multi_axis' = TRUE
           /\ window' = Auto
           /\ slider_to' = [p \in Panels |->
                               IF p = Single THEN slider_to[p]
                               ELSE Max(0, data[v].shape[p + 1] - 1)]
           /\ RenderAllAxes("on_file_loaded", v, mid)
           /\ loading' = IF cb'.err = "" THEN FALSE ELSE loading
    /\ queue' = Tail(queue)
    /\ UNCHANGED <<shown, img, data, zoom, offset, gestures>>
    /\ UNCHANGED <<geometry, coords, dicomVars, utilVars>>

\* How many scroll, drag and slider gestures the user makes.
MaxGestures == 2

\* The panels on the screen: the three panels of the multi-axis view, or the
\* ImageCanvas.
Visible == IF is_multi_axis THEN {0, 1, 2} ELSE {Single}

\* max(0.1, min(z, 20.0)).
Clamp(z) ==
    IF z < ZoomUnit \div 10 THEN ZoomUnit \div 10
    ELSE IF z > 20 * ZoomUnit THEN 20 * ZoomUnit
    ELSE z

\* The zoom a scroll gives: the factor is 1.1 for a scroll up and 0.9 for a
\* scroll down.
Scrolled(z, up) == Clamp(IF up THEN (z * 11) \div 10 ELSE (z * 9) \div 10)

\* _on_mousewheel on panel p, which draws the panel again.
on_mousewheel(p, up) ==
    /\ p \in Visible
    /\ gestures < MaxGestures
    /\ gestures' = gestures + 1
    /\ zoom' = [zoom EXCEPT ![p] = Scrolled(@, up)]
    /\ photo' = [photo EXCEPT ![p] = Rendered(@, source[p], PanelSize(p), zoom'[p])]
    /\ cb' = [fn |-> IF up THEN "scroll_up" ELSE "scroll_down", err |-> ""]
    /\ UNCHANGED <<is_multi_axis, multi_canvas, axis_slices, offset>>
    /\ UNCHANGED <<geometry, source, coords>>
    /\ UNCHANGED <<model, current_slice, loading, jobs, queue, shown, controlVars>>
    /\ UNCHANGED <<dicomVars, niftiVars, utilVars>>

\* The displacements of a drag.
Drags == {<<4, 0>>, <<-1, 3>>}

\* The offset a drag by d gives.
Dragged(o, d) == <<o[1] + d[1], o[2] + d[2]>>

\* _on_pan_start and one _on_pan_move on panel p: a press of the middle
\* button and a motion that is displaced by d from the press.
on_pan(p, d) ==
    /\ p \in Visible
    /\ gestures < MaxGestures
    /\ gestures' = gestures + 1
    /\ offset' = [offset EXCEPT ![p] = Dragged(@, d)]
    /\ photo' = [photo EXCEPT ![p] = Rendered(@, source[p], PanelSize(p), zoom[p])]
    /\ cb' = [fn |-> "pan", err |-> ""]
    /\ UNCHANGED <<is_multi_axis, multi_canvas, axis_slices, zoom>>
    /\ UNCHANGED <<geometry, source, coords>>
    /\ UNCHANGED <<model, current_slice, loading, jobs, queue, shown, controlVars>>
    /\ UNCHANGED <<dicomVars, niftiVars, utilVars>>

\* reset_view() of the panels ps: zoom 1.0, offset (0, 0), and the panels are
\* drawn again.
ResetView(ps) ==
    /\ zoom' = [p \in Panels |-> IF p \in ps THEN ZoomUnit ELSE zoom[p]]
    /\ offset' = [p \in Panels |-> IF p \in ps THEN <<0, 0>> ELSE offset[p]]
    /\ photo' = [p \in Panels |->
                    IF p \in ps
                    THEN Rendered(photo[p], source[p], PanelSize(p), ZoomUnit)
                    ELSE photo[p]]

\* ImageCanvas.reset_view(), which is also fit_view(): the toolbar's Fit button
\* is bound to self._canvas.fit_view.
fit_view ==
    /\ ResetView({Single})
    /\ cb' = [fn |-> "fit_view", err |-> ""]
    /\ UNCHANGED <<is_multi_axis, multi_canvas, axis_slices, gestures>>
    /\ UNCHANGED <<geometry, source, coords>>
    /\ UNCHANGED <<model, current_slice, loading, jobs, queue, shown, controlVars>>
    /\ UNCHANGED <<dicomVars, niftiVars, utilVars>>

\* The zoom actual_size() computes for a source image in a canvas.
ActualZoom(src, canvas) ==
    (src[1] * ZoomUnit) \div Max(resize_to_fit(src, canvas[1], canvas[2])[1], 1)

\* ImageCanvas.actual_size(), the toolbar's 1:1 button.
actual_size ==
    /\ LET src == source[Single]
           canvas == PanelSize(Single)
       IN  IF src = NoSize \/ canvas[1] <= 1 \/ canvas[2] <= 1
           THEN UNCHANGED <<zoom, offset, photo>>
           ELSE /\ zoom' = [zoom EXCEPT ![Single] = ActualZoom(src, canvas)]
                /\ offset' = [offset EXCEPT ![Single] = <<0, 0>>]
                /\ photo' = [photo EXCEPT ![Single] =
                                Rendered(@, src, canvas, zoom'[Single])]
    /\ cb' = [fn |-> "actual_size", err |-> ""]
    /\ UNCHANGED <<is_multi_axis, multi_canvas, axis_slices, gestures>>
    /\ UNCHANGED <<geometry, source, coords>>
    /\ UNCHANGED <<model, current_slice, loading, jobs, queue, shown, controlVars>>
    /\ UNCHANGED <<dicomVars, niftiVars, utilVars>>

\* _reset_zoom(), the View menu and Control-0: MultiAxisCanvas.reset_view() in
\* the multi-axis view, ImageCanvas.reset_view() otherwise.
reset_zoom ==
    /\ ResetView(IF is_multi_axis /\ multi_canvas THEN {0, 1, 2} ELSE {Single})
    /\ cb' = [fn |-> "reset_zoom", err |-> ""]
    /\ UNCHANGED <<is_multi_axis, multi_canvas, axis_slices, gestures>>
    /\ UNCHANGED <<geometry, source, coords>>
    /\ UNCHANGED <<model, current_slice, loading, jobs, queue, shown, controlVars>>
    /\ UNCHANGED <<dicomVars, niftiVars, utilVars>>

\* A <Configure> event: the window manager gives the window another layout.
configure(g) ==
    /\ g # geometry
    /\ geometry' = g
    /\ cb' = [fn |-> "configure", err |-> ""]
    /\ UNCHANGED <<panelVars, source, photo, coords>>
    /\ UNCHANGED <<model, current_slice, loading, jobs, queue, shown, controlVars>>
    /\ UNCHANGED <<dicomVars, niftiVars, utilVars>>


(***************************************************************************)
(* The sliders, the window and the resize timer.                           *)
(***************************************************************************)

\* _render_slice(): nothing without a model, the three panels in the
\* multi-axis view, the slice of the ImageCanvas otherwise.
render_slice(fn) ==
    IF model = None
    THEN /\ cb' = [fn |-> fn, err |-> ""]
         /\ UNCHANGED <<dicomVars, nret, shown, source, photo>>
    ELSE IF is_multi_axis /\ jobs[model].kind = "nifti"
    THEN /\ RenderAllAxes(fn, model, axis_slices)
         /\ UNCHANGED <<dicomVars, shown>>
    ELSE /\ RenderSlice(fn, model, current_slice)
         /\ UNCHANGED nret

\* _on_slider(value): the user moves the main slider, which the multi-axis
\* view hides, to another value of its range.
on_slider(idx) ==
    /\ ~is_multi_axis
    /\ model # None
    /\ idx \in 0 .. slider_to[Single]
    /\ idx # current_slice
    /\ gestures < MaxGestures
    /\ gestures' = gestures + 1
    /\ current_slice' = idx
    /\ RenderSlice("on_slider", model, idx)
    /\ UNCHANGED <<is_multi_axis, multi_canvas, axis_slices, zoom, offset>>
    /\ UNCHANGED <<model, loading, jobs, queue, controlVars>>
    /\ UNCHANGED <<niftiVars, geometry, coords, utilVars>>

\* The three sliders move together.
SetAllAxisSlices(s, axis, index) == [k \in DOMAIN s |-> index]

\* self._axis_slices[axis] = index.
SetAxisSlice(s, axis, index) == [s EXCEPT ![axis + 1] = index]

\* MultiAxisCanvas._on_slider(axis, value) and _on_multi_axis_slider(axis,
\* index): the user moves the slider of a panel to another value of its range.
on_multi_axis_slider(axis, idx) ==
    /\ is_multi_axis
    /\ model # None
    /\ idx \in 0 .. slider_to[axis]
    /\ idx # axis_slices[axis + 1]
    /\ gestures < MaxGestures
    /\ gestures' = gestures + 1
    /\ axis_slices' = SetAxisSlice(axis_slices, axis, idx)
    /\ RenderSingleAxis("on_multi_axis_slider", model, axis, idx)
    /\ UNCHANGED <<is_multi_axis, multi_canvas, zoom, offset>>
    /\ UNCHANGED <<model, current_slice, loading, jobs, queue, shown, controlVars>>
    /\ UNCHANGED <<img, data, dicomVars, geometry, coords, utilVars>>

\* WINDOW_PRESETS: (center, width) by name.
WINDOW_PRESETS ==
    ("Brain" :> <<40, 80>>) @@ ("Bone" :> <<300, 1500>>) @@
    ("Lung" :> <<-600, 1500>>) @@ ("Abdomen" :> <<60, 400>>) @@
    ("Soft Tissue" :> <<50, 350>>)

\* _on_window_preset(name): "Auto" or a preset, then _render_slice.
on_window_preset(name) ==
    /\ window' = IF name = "Auto" THEN Auto
                  ELSE [none |-> FALSE, center |-> WINDOW_PRESETS[name][1],
                        width |-> WINDOW_PRESETS[name][2]]
    /\ render_slice("on_window_preset")
    /\ UNCHANGED <<model, current_slice, loading, jobs, queue, slider_to>>
    /\ UNCHANGED <<img, data, panelVars, geometry, coords, utilVars>>

\* The ranges of the toolbar's Center and Width sliders.
CenterRange == -1024 .. 3072

WidthRange == 1 .. 4096

\* _on_window_manual(center, width): the values of the toolbar's sliders.
on_window_manual(center, width) ==
    /\ center \in CenterRange
    /\ width \in WidthRange
    /\ window' = [none |-> FALSE, center |-> center, width |-> width]
    /\ render_slice("on_window_manual")
    /\ UNCHANGED <<model, current_slice, loading, jobs, queue, slider_to>>
    /\ UNCHANGED <<img, data, panelVars, geometry, coords, utilVars>>

\* on_resize(), 150 ms after the last <Configure> event of the window.
on_resize ==
    /\ render_slice("on_resize")
    /\ UNCHANGED <<model, current_slice, loading, jobs, queue, controlVars>>
    /\ UNCHANGED <<img, data, panelVars, geometry, coords, utilVars>>

\* The directories and files the user opens while working with the views.
ViewDirs == {"A"}

ViewFiles == {"N3"}

\* The layouts the window takes while the user works with the views.
ViewGeometries == {"large"}

ViewNext ==
    \/ \E path \in ViewDirs : ButtonOpenDir(path)
    \/ \E path \in ViewFiles : ButtonOpenFile(path)
    \/ \E j \in 1 .. MaxLoads : load_directory_bg(j)
    \/ \E j \in 1 .. MaxLoads : load_file_bg(j)
    \/ on_directory_loaded
    \/ on_file_loaded
    \/ \E p \in Panels, up \in BOOLEAN : on_mousewheel(p, up)
    \/ \E p \in Panels, d \in Drags : on_pan(p, d)
    \/ fit_view
    \/ actual_size
    \/ reset_zoom
    \/ \E g \in ViewGeometries : configure(g)
    \/ \E axis \in 0 .. 2, idx \in 0 .. MaxNiftiIndex : on_multi_axis_slider(axis, idx)

\* A session in which the user opens volumes and zooms and pans the panels.
InitView ==
    VolumesInit(1 .. MaxLoads) /\ SessionInit /\ NiftiInit(1 .. MaxLoads) /\ ViewInit /\ UtilInit

SpecView == InitView /\ [][ViewNext]_vars

\* What the user opens and chooses in a session with the main slider and
\* the windows.
ControlDirs == {"A", "B", "Z"}

ControlPresets == {"Auto", "Brain"}

ControlManual == {<<0, 1>>}

ControlNext ==
    \/ \E path \in ControlDirs : ButtonOpenDir(path)
    \/ \E j \in 1 .. MaxLoads : load_directory_bg(j)
    \/ on_directory_loaded
    \/ \E idx \in 0 .. MaxIndex : on_slider(idx)
    \/ step(1)
    \/ step(-1)
    \/ KeyHome
    \/ goto_end
    \/ \E name \in ControlPresets : on_window_preset(name)
    \/ \E w \in ControlManual : on_window_manual(w[1], w[2])
    \/ \E g \in ViewGeometries : configure(g)
    \/ on_resize

InitControl ==
    VolumesInit(1 .. MaxLoads) /\ SessionInit /\ NiftiInit(1 .. MaxLoads) /\ ViewInit /\ UtilInit

SpecControl == InitControl /\ [][ControlNext]_vars

\* What the user opens in a session with the multi-axis view.
AxesDirs == {"A"}

AxesFiles == {"N3", "NR"}

AxesNext ==
    \/ \E path \in AxesDirs : ButtonOpenDir(path)
    \/ \E path \in AxesFiles : ButtonOpenFile(path)
    \/ \E j \in 1 .. MaxLoads : load_directory_bg(j)
    \/ \E j \in 1 .. MaxLoads : load_file_bg(j)
    \/ on_directory_loaded
    \/ on_file_loaded
    \/ \E axis \in 0 .. 2, idx \in 0 .. MaxNiftiIndex : on_multi_axis_slider(axis, idx)
    \/ step(1)
    \/ step(-1)
    \/ KeyHome
    \/ goto_end

InitAxes ==
    VolumesInit(1 .. MaxLoads) /\ SessionInit /\ NiftiInit(1 .. MaxLoads) /\ ViewInit /\ UtilInit

SpecAxes == InitAxes /\ [][AxesNext]_vars

SessionNext ==
    \/ \E path \in SessionDirs : ButtonOpenDir(path)
    \/ \E path \in SessionDirs : KeyOpenDir(path)
    \/ \E j \in 1 .. MaxLoads : load_directory_bg(j)
    \/ on_directory_loaded
    \/ showerror
    \/ set_loading_false
    \/ status_load_failed
    \/ step(1)
    \/ step(-1)
    \/ KeyHome
    \/ goto_end

(***************************************************************************)
(* One volume holding the long stack, under a caller that fetches the      *)
(* slices in order and goes back to the first slice at any time.           *)
(***************************************************************************)

\* The caller loads the long stack.
LongLoad == loaded[1] = "none" /\ CallLoad(1, "L")

\* The first index beyond those the cache holds.
NextIndex ==
    IF cache = <<>> THEN 0
    ELSE 1 + CHOOSE m \in {e.index : e \in Range(cache)} :
                 \A e \in Range(cache) : e.index <= m

\* The caller fetches the next slice of the stack.
FetchNext == CallGetSlice(1, NextIndex)

\* The caller fetches the first slice again.
FetchFirst == CallGetSlice(1, 0)

NextLong == LongLoad \/ FetchNext \/ FetchFirst

InitLong == VolumesInit({1}) /\ SessionInit /\ NiftiInit({1}) /\ ViewInit /\ UtilInit

SpecLong == InitLong /\ [][NextLong]_vars

\* A viewer session: the user, the display thread and the loader threads.
InitSession ==
    VolumesInit(1 .. MaxLoads) /\ SessionInit /\ NiftiInit(1 .. MaxLoads) /\ ViewInit /\ UtilInit

SpecSession == InitSession /\ [][SessionNext]_vars

(***************************************************************************)
(* What the claims speak about.                                            *)
(***************************************************************************)

\* The DICOM files of a directory, in listing order.
DicomFilesOf(path) ==
    SelectSeq(Listing[path], LAMBDA f : FS[f].isfile /\ FS[f].dicom)

\* The position of file f in a sequence of distinct files.
PosIn(fs, f) == CHOOSE i \in DOMAIN fs : fs[i] = f

\* Volume v's most recent load() returned.
LoadedOk(v) == loaded[v] \in DOMAIN Listing

\* The array get_slice owes for file f: raw * slope + intercept when the header
\* holds both tags, the raw array otherwise.
ExpectedSlice(f) ==
    [k \in DOMAIN FS[f].pix |->
        IF FS[f].hasSlope /\ FS[f].hasIcpt
        THEN FS[f].pix[k] * FS[f].slope + FS[f].icpt
        ELSE FS[f].pix[k]]

\* The call that led to this state is get_slice, and it returned.
SliceReturned == ret.op = "get_slice" /\ ret.err = ""

\* The file at the index of the most recent get_slice call.
RetFile == files[ret.self][ret.index + 1]

(***************************************************************************)
(* C1.  A load() that fails on a volume that holds a loaded stack leaves   *)
(* the volume's file list (hence num_slices()) and its cached slices       *)
(* exactly as they were before the call.                                   *)
(***************************************************************************)
C1_FailedLoadKeepsState ==
    [][(ret'.op = "load" /\ ret'.err # "" /\ LoadedOk(ret'.self))
          => /\ files'[ret'.self] = files[ret'.self]
             /\ CacheOf(cache', ret'.self) = CacheOf(cache, ret'.self)]_vars

(***************************************************************************)
(* C2.  After a load() that returned (a first load or a reload, of the     *)
(* same or of another directory) the file list holds the DICOM files of    *)
(* that directory, every cached array of the volume is the decode of the   *)
(* file now at its index, and every get_slice(i) returns the pixel data of *)
(* the file now at position i: never an array cached before the load.      *)
(***************************************************************************)
C2_NoStaleSliceAfterLoad ==
    \A v \in DOMAIN files :
        LoadedOk(v) =>
            /\ Range(files[v]) = Range(DicomFilesOf(loaded[v]))
            /\ Len(files[v]) = Len(DicomFilesOf(loaded[v]))
            /\ \A p \in DOMAIN cache :
                  cache[p].self = v =>
                      /\ cache[p].index + 1 \in DOMAIN files[v]
                      /\ cache[p].val = FS[files[v][cache[p].index + 1]].pix
            /\ (SliceReturned /\ ret.self = v) => ret.val = ExpectedSlice(RetFile)

\* A get_slice(i) that returned after a reload of another directory, for an
\* index i that was cached when that reload began.
C2_Witness ==
    /\ SliceReturned
    /\ LoadedOk(ret.self)
    /\ ret.index \in stale[ret.self]
    /\ current_ds[ret.self] \in Range(DicomFilesOf("B"))

(***************************************************************************)
(* C3.  When every file of the directory carries an InstanceNumber, load() *)
(* orders the stack by ascending numeric InstanceNumber whatever the names *)
(* and the listing order, files with equal InstanceNumber keep their       *)
(* listing order, and get_slice(0) followed by get_metadata() yields a     *)
(* file with the smallest InstanceNumber.                                  *)
(***************************************************************************)
AllHaveInum(path) == \A f \in Range(DicomFilesOf(path)) : FS[f].header /\ FS[f].hasInum

C3_SortedByInstanceNumber ==
    \A v \in DOMAIN files :
        (LoadedOk(v) /\ AllHaveInum(loaded[v])) =>
            /\ Range(files[v]) = Range(DicomFilesOf(loaded[v]))
            /\ \A a, b \in DOMAIN files[v] :
                  a < b =>
                      /\ FS[files[v][a]].inum <= FS[files[v][b]].inum
                      /\ FS[files[v][a]].inum = FS[files[v][b]].inum
                            => PosIn(DicomFilesOf(loaded[v]), files[v][a])
                                 < PosIn(DicomFilesOf(loaded[v]), files[v][b])
            /\ (SliceReturned /\ ret.self = v /\ ret.index = 0)
                  => \A f \in Range(DicomFilesOf(loaded[v])) :
                        FS[current_ds[v]].inum <= FS[f].inum

\* get_slice(0) returned on a stack whose listing holds InstanceNumber 10 ahead
\* of 2 and two files with the same InstanceNumber.
C3_Witness ==
    /\ SliceReturned /\ ret.index = 0
    /\ LoadedOk(ret.self) /\ AllHaveInum(loaded[ret.self])
    /\ LET ls == DicomFilesOf(loaded[ret.self])
       IN  /\ \E a, b \in DOMAIN ls : a < b /\ FS[ls[a]].inum = 10 /\ FS[ls[b]].inum = 2
           /\ \E a, b \in DOMAIN ls : a # b /\ FS[ls[a]].inum = FS[ls[b]].inum

(***************************************************************************)
(* C4.  A load() of a directory that mixes files with an InstanceNumber    *)
(* and files without one returns, and leaves a deterministic order: the    *)
(* files with the tag ascending by number, the files without it ascending  *)
(* by name, and one group wholly ahead of the other.                       *)
(***************************************************************************)
Mixed(path) ==
    /\ Readable(path)
    /\ \E f \in Range(DicomFilesOf(path)) : FS[f].hasInum
    /\ \E f \in Range(DicomFilesOf(path)) : ~FS[f].hasInum

C4_MixedLoadSucceeds ==
    (ret.op = "load" /\ Mixed(ret.path)) =>
        /\ ret.err = ""
        /\ LET fs == files[ret.self]
           IN  /\ Range(fs) = Range(DicomFilesOf(ret.path))
               /\ \A a, b \in DOMAIN fs :
                     a < b =>
                        /\ (FS[fs[a]].hasInum /\ FS[fs[b]].hasInum)
                              => FS[fs[a]].inum <= FS[fs[b]].inum
                        /\ (~FS[fs[a]].hasInum /\ ~FS[fs[b]].hasInum)
                              => ~LexLess(FS[fs[b]].name, FS[fs[a]].name)
               /\ \/ \A a, b \in DOMAIN fs :
                        (FS[fs[a]].hasInum /\ ~FS[fs[b]].hasInum) => a < b
                  \/ \A a, b \in DOMAIN fs :
                        (FS[fs[a]].hasInum /\ ~FS[fs[b]].hasInum) => b < a


(***************************************************************************)
(* C5.  At most one background load is in flight at any time, and the      *)
(* volume that ends up active is the one of the most recently started      *)
(* load, whatever order the loads complete in.                             *)
(***************************************************************************)
\* The loads whose thread runs or whose handoff waits in the queue.
InFlight == {j \in DOMAIN jobs : jobs[j].state \in {"running", "posted"}}

\* Every load started has ended and every callback has run.
Quiescent == InFlight = {} /\ queue = <<>>

C5_OneLoadLatestWins ==
    /\ Cardinality(InFlight) <= 1
    /\ (Quiescent /\ jobs # <<>> /\ jobs[Len(jobs)].state = "delivered")
          => model = Len(jobs)

(***************************************************************************)
(* C6.  For every load, the worker has performed load() and the first      *)
(* get_slice before it posts the handoff, and the display thread performs  *)
(* no operation on the volume before the handoff is delivered.             *)
(***************************************************************************)
C6_FirstSliceOnWorker ==
    \A k \in DOMAIN queue :
        queue[k].fn = "on_directory_loaded" =>
            /\ loaded[queue[k].vol] \in DOMAIN Listing
            /\ current_ds[queue[k].vol] # None
            /\ model # queue[k].vol

(***************************************************************************)
(* C7.  The cached slices of a volume change only by a load() or a         *)
(* get_slice() on that same volume: no call on another volume adds or      *)
(* removes an entry of it.                                                 *)
(***************************************************************************)
C7_CacheOwnedByInstance ==
    [][\A v \in DOMAIN files :
          CacheOf(cache', v) # CacheOf(cache, v)
             => ret'.self = v /\ ret'.op \in {"load", "get_slice"}]_vars

(***************************************************************************)
(* C9.  get_slice(i) returns the decode of file i with the rescale applied *)
(* exactly once when the header holds both tags and unscaled otherwise;    *)
(* the value is the same on the cache miss and on every later hit.         *)
(***************************************************************************)
\* The file a cache entry was decoded for.
EntryFile(e) == files[e.self][e.index + 1]

Navigation == {"step", "goto"}

Decoded(v, index) ==
    [self |-> v, index |-> index, val |-> FS[files[v][index + 1]].pix]

\* Sequence s without its element p.
Without(s, p) == SubSeq(s, 1, p - 1) \o SubSeq(s, p + 1, Len(s))

C8_BoundedLru ==
    [][/\ \A v \in DOMAIN files : Len(CacheOf(cache', v)) <= 64
       /\ (ret'.op = "get_slice" /\ ret'.err = "" /\ <<ret, cache>>' # <<ret, cache>>) =>
            LET v == ret'.self
                mine == CacheOf(cache, v)
            IN  IF ret'.hit
                THEN \E p \in DOMAIN mine :
                        /\ mine[p].index = ret'.index
                        /\ CacheOf(cache', v) = Without(mine, p) \o <<mine[p]>>
                ELSE /\ \A p \in DOMAIN mine : mine[p].index # ret'.index
                     /\ CacheOf(cache', v) =
                           (IF Len(mine) = 64 THEN Tail(mine) ELSE mine)
                              \o <<Decoded(v, ret'.index)>>
      ]_vars

\* The cache is full, slice 64 has just been decoded, and slice 0, fetched
\* again before, is still cached while slice 1 has left.
C8_Witness ==
    /\ ret.op = "get_slice" /\ ret.err = "" /\ ~ret.hit /\ ret.index = 64
    /\ Len(CacheOf(cache, ret.self)) = 64
    /\ \E p \in DOMAIN cache : cache[p].self = ret.self /\ cache[p].index = 0
    /\ \A p \in DOMAIN cache : cache[p].self = ret.self => cache[p].index # 1


(***************************************************************************)
(* C11.  get_metadata(), get_info_summary() and get_window_defaults() are  *)
(* those of the slice most recently fetched from the currently loaded      *)
(* stack: right after a get_slice that returned they are those of its      *)
(* file, right after a load() that returned they are None, empty and       *)
(* (None, None), and the header is never one of a file outside the         *)
(* currently loaded stack.                                                 *)
(***************************************************************************)
C11_MetadataOfCurrentStack ==
    /\ SliceReturned => get_metadata(ret.self) = RetFile
    /\ (ret.op = "load" /\ ret.err = "") =>
          /\ get_metadata(ret.self) = None
          /\ get_info_summary(ret.self) = EmptyMapping
          /\ get_window_defaults(ret.self) = NoWindow
    /\ \A v \in DOMAIN files :
          (LoadedOk(v) /\ get_metadata(v) # None) => get_metadata(v) \in Range(files[v])

(***************************************************************************)
(* C12.  get_info_summary() is the empty mapping on a volume that has      *)
(* loaded nothing and while no slice has been fetched; after a get_slice   *)
(* that returned it holds exactly Patient ID, Patient Age, Modality and    *)
(* Series Description, each the value of the header of the fetched file,   *)
(* or "N/A" when the header does not hold the tag.                         *)
(***************************************************************************)
\* The value the summary is to show for a text tag.
Shown(t) == IF Len(t) = 0 THEN "N/A" ELSE Head(t)

WellFormed(t) == t.kind \in {"scalar", "multi"} /\ t.vals # <<>>

C13_WindowDefaultsNeverRaise ==
    \A v \in DOMAIN files :
        LET w == get_window_defaults(v)
            ds == get_metadata(v)
        IN  /\ w.err = ""
            /\ ds = None => w = NoWindow
            /\ ds # None =>
                  IF WellFormed(Tags[ds].WindowCenter) /\ WellFormed(Tags[ds].WindowWidth)
                  THEN w = [err |-> "", none |-> FALSE,
                            center |-> Tags[ds].WindowCenter.vals[1],
                            width |-> Tags[ds].WindowWidth.vals[1]]
                  ELSE w = NoWindow

(***************************************************************************)
(* C14.  load() of a readable directory keeps exactly the regular files of *)
(* the directory itself whose content is DICOM, num_slices() is their      *)
(* number, and the load fails with FileNotFoundError exactly when there is *)
(* none.                                                                   *)
(***************************************************************************)
\* The regular DICOM files directly in the directory.
Qualifying(path) == {f \in Range(Listing[path]) : FS[f].isfile /\ FS[f].dicom}

C14_KeepsExactlyDicomFiles ==
    (ret.op = "load" /\ Readable(ret.path)) =>
        /\ Range(files[ret.self]) = Qualifying(ret.path)
        /\ num_slices(ret.self) = Cardinality(Qualifying(ret.path))
        /\ (ret.err = "FileNotFoundError") <=> (Qualifying(ret.path) = {})

\* A load returned for a directory that also holds a text file and a
\* subdirectory.
C14_Witness ==
    /\ ret.op = "load" /\ ret.err = "" /\ Readable(ret.path)
    /\ \E f \in Range(Listing[ret.path]) : FS[f].isfile /\ ~FS[f].dicom
    /\ \E f \in Range(Listing[ret.path]) : ~FS[f].isfile
    /\ num_slices(ret.self) = 2

(***************************************************************************)
(* C17.  get_slice(i) returns the rescaled pixel array of file i mirrored  *)
(* left to right, of the same shape, and get_info_summary() holds an       *)
(* "Orientation" entry.                                                    *)
(***************************************************************************)
\* A row of pixels mirrored left to right.
Mirror(row) == [k \in DOMAIN row |-> row[Len(row) + 1 - k]]

C17_SlicesInLPS ==
    SliceReturned =>
        /\ ret.val = Mirror(ExpectedSlice(RetFile))
        /\ "Orientation" \in DOMAIN get_info_summary(ret.self)


(***************************************************************************)
(* C15.  NiftiVolume.load fails with ValueError whenever the decoded array *)
(* has fewer than 3 axes, and a load that fails leaves the volume holding  *)
(* what it held before the call.                                           *)
(***************************************************************************)
C15_Rejected2DLeavesVolume ==
    [][(nret'.op = "load" /\ nret # nret') =>
          /\ (nret'.path \in DOMAIN NiftiFS /\ Len(NiftiFS[nret'.path].shape) < 3)
                => nret'.err = "ValueError"
          /\ nret'.err # "" => (img' = img /\ data' = data)]_vars

(***************************************************************************)
(* C16.  For a volume that load accepted, with spatial shape (n0, n1, n2): *)
(* num_slices(a) is n_a, and get_slice(index, a) for an index inside the   *)
(* axis returns a 2-D array, the cut along the axis rotated by 90 degrees, *)
(* whose shape is the two other extents in swapped order.                  *)
(***************************************************************************)
\* The volume the most recent NiftiVolume call was made on holds an array
\* that its load accepted.
Accepted == nret.self # None /\ ndim(data[nret.self]) >= 3

C16_SliceIsRotatedCut ==
    Accepted =>
        LET d == data[nret.self]
            others == SelectSeq(<<1, 2, 3>>, LAMBDA k : k # nret.axis + 1)
        IN  /\ nret.op = "num_slices" =>
                  nret.err = "" /\ nret.n = d.shape[nret.axis + 1]
            /\ (nret.op = "get_slice" /\ nret.index < d.shape[nret.axis + 1]) =>
                  /\ nret.err = ""
                  /\ nret.val.shape = <<d.shape[others[2]], d.shape[others[1]]>>
                  /\ \A c \in Coords(nret.val.shape) :
                        nret.val.val[c] =
                           Cut(d, nret.index, nret.axis).val[
                              <<c[2], d.shape[others[2]] - 1 - c[1]>>]


(***************************************************************************)
(* C18.  In every reachable state the zoom factor of every panel, the      *)
(* ImageCanvas and the three panels of the multi-axis view, lies in        *)
(* [0.1, 20.0].                                                            *)
(***************************************************************************)
C18_ZoomWithinBounds ==
    \A p \in Panels : ZoomUnit \div 10 <= zoom[p] /\ zoom[p] <= 20 * ZoomUnit

(***************************************************************************)
(* C19.  A scroll multiplies the zoom factor of its panel by 1.1 to zoom   *)
(* in and by 1 / 1.1 to zoom out, and clamps the product to [0.1, 20.0];   *)
(* the other panels keep their factor.                                     *)
(***************************************************************************)
C19_ScrollFactors ==
    [][(gestures' = gestures + 1 /\ cb'.fn \in {"scroll_up", "scroll_down"}) =>
          \E p \in Panels :
              zoom' = [zoom EXCEPT ![p] =
                          Clamp(IF cb'.fn = "scroll_up"
                                THEN (zoom[p] * 11) \div 10
                                ELSE (zoom[p] * 10) \div 11)]]_vars

(***************************************************************************)
(* C20.  After the toolbar's Fit button or Reset Zoom, every panel of the  *)
(* view on the screen, the ImageCanvas or the three panels of the          *)
(* multi-axis view, has zoom 1.0 and offset (0, 0).                        *)
(***************************************************************************)
C20_FitResetsDisplayedPanels ==
    cb.fn \in {"fit_view", "reset_zoom"} =>
        \A p \in Visible : zoom[p] = ZoomUnit /\ offset[p] = <<0, 0>>


(***************************************************************************)
(* C21.  After actual_size() on the ImageCanvas, when it holds a source    *)
(* image and its canvas is larger than 1 x 1, the image the canvas has     *)
(* drawn has exactly the pixel dimensions of the source image, and the     *)
(* offset is (0, 0).                                                       *)
(***************************************************************************)
C21_ActualSizeIsOneToOne ==
    (/\ cb.fn = "actual_size"
     /\ source[Single] # NoSize
     /\ PanelSize(Single)[1] > 1
     /\ PanelSize(Single)[2] > 1)
        => /\ photo[Single].size = source[Single]
           /\ offset[Single] = <<0, 0>>


(***************************************************************************)
(* C22.  In the multi-axis view a scroll, a drag or a slider move on the   *)
(* panel of one axis leaves the zoom, the offset and the slice index of    *)
(* the other two axes as they were.                                        *)
(***************************************************************************)
PanelEvents == {"scroll_up", "scroll_down", "pan", "on_multi_axis_slider"}

C22_PanelEventsAreLocal ==
    [][(is_multi_axis /\ cb'.fn \in PanelEvents) =>
          \E a \in 0 .. 2 :
              \A b \in (0 .. 2) \ {a} :
                  /\ zoom'[b] = zoom[b]
                  /\ offset'[b] = offset[b]
                  /\ axis_slices'[b + 1] = axis_slices[b + 1]]_vars

\* A slider move on one panel after a scroll or a drag on another.
C22_Witness ==
    /\ is_multi_axis
    /\ cb.fn = "on_multi_axis_slider"
    /\ \E a \in 0 .. 2 :
          /\ nret.axis # a
          /\ zoom[a] # ZoomUnit \/ offset[a] # <<0, 0>>


(***************************************************************************)
(* C23.  When the handoff makes a NIfTI volume the active volume, each of  *)
(* the three slice indices becomes num_slices(axis) // 2 of that volume    *)
(* and the slider of each panel gets the range 0 .. num_slices(axis) - 1,  *)
(* whatever was displayed before.                                          *)
(***************************************************************************)
FileHandoff ==
    /\ queue # <<>>
    /\ Head(queue).fn = "on_file_loaded"
    /\ queue' = Tail(queue)

C23_NewVolumeResetsSlices ==
    [][FileHandoff =>
          /\ is_multi_axis'
          /\ \A a \in 0 .. 2 :
                /\ axis_slices'[a + 1] = data[model'].shape[a + 1] \div 2
                /\ slider_to'[a] = data[model'].shape[a + 1] - 1]_vars

\* A second volume has just been handed over after a slider of the first one
\* was moved, and its middle slices are not the positions the panels had.
C23_Witness ==
    /\ is_multi_axis
    /\ cb.fn = "on_file_loaded"
    /\ gestures > 0
    /\ \E u \in DOMAIN jobs :
          /\ u # model
          /\ jobs[u].kind = "nifti"
          /\ jobs[u].state = "delivered"
          /\ data[u].shape # data[model].shape


(***************************************************************************)
(* The ImageCanvas on its own: images are displayed in it, the window is   *)
(* laid out, the user scrolls, drags, presses Fit and 1:1 and moves the    *)
(* pointer.                                                                *)
(***************************************************************************)

Min(a, b) == IF a <= b THEN a ELSE b

\* The value of _canvas_to_image for a pointer at (cx, cy).
Inside(cx, cy, x, y) == [at |-> <<cx, cy>>, none |-> FALSE, x |-> x, y |-> y]

Outside(cx, cy) == [at |-> <<cx, cy>>, none |-> TRUE, x |-> 0, y |-> 0]

\* The mapping without the offset of the image.
canvas_to_image_unpanned(src, ph, canvas, off, cx, cy) ==
    IF src = NoSize \/ ph = NoPhoto THEN Outside(cx, cy)
    ELSE LET dw == ph.size[1]
             dh == ph.size[2]
             rx == cx - (canvas[1] \div 2 - dw \div 2)
             ry == cy - (canvas[2] \div 2 - dh \div 2)
         IN  IF rx < 0 \/ ry < 0 \/ rx >= dw \/ ry >= dh THEN Outside(cx, cy)
             ELSE Inside(cx, cy, Min((rx * src[1]) \div dw, src[1] - 1),
                                 Min((ry * src[2]) \div dh, src[2] - 1))

\* _canvas_to_image(cx, cy) of a canvas of the given size that holds the
\* source image src, whose photo is ph and whose offset is off.
canvas_to_image(src, ph, canvas, off, cx, cy) ==
    IF src = NoSize \/ ph = NoPhoto THEN Outside(cx, cy)
    ELSE LET img_cx == canvas[1] \div 2 + off[1]
             img_cy == canvas[2] \div 2 + off[2]
             dw == ph.size[1]
             dh == ph.size[2]
             rx == cx - (img_cx - dw \div 2)
             ry == cy - (img_cy - dh \div 2)
         IN  IF rx < 0 \/ ry < 0 \/ rx >= dw \/ ry >= dh THEN Outside(cx, cy)
             ELSE Inside(cx, cy, Min((rx * src[1]) \div dw, src[1] - 1),
                                 Min((ry * src[2]) \div dh, src[2] - 1))

\* The top left corner of the image _render drew: create_image(x, y,
\* anchor=CENTER) with x = cw // 2 + int(offset_x) in the canvas it measured.
Corner(ph, off) ==
    <<ph.canvas[1] \div 2 + off[1] - ph.size[1] \div 2,
      ph.canvas[2] \div 2 + off[2] - ph.size[2] \div 2>>

\* The canvas location of source pixel (x, y) in the image _render drew: the
\* resize maps the source width onto the displayed width linearly.
Placed(src, ph, off, x, y) ==
    <<Corner(ph, off)[1] + (x * ph.size[1]) \div src[1],
      Corner(ph, off)[2] + (y * ph.size[2]) \div src[2]>>

\* The sizes of the images that are displayed.
Images == {<<2, 1>>, <<20, 10>>}

\* ImageCanvas.display(pil_image).
display(size) ==
    /\ source' = [source EXCEPT ![Single] = size]
    /\ photo' = [photo EXCEPT ![Single] =
                    Rendered(@, size, PanelSize(Single), zoom[Single])]
    /\ cb' = [fn |-> "display", err |-> ""]
    /\ UNCHANGED <<panelVars, geometry, coords>>
    /\ UNCHANGED <<model, current_slice, loading, jobs, queue, shown, controlVars>>
    /\ UNCHANGED <<dicomVars, niftiVars, utilVars>>

\* Where the pointer goes: the places of the first, the middle and the last
\* pixel of the first and the last row of the image, and the corners and the
\* centre of the canvas.
Pointers ==
    LET src == source[Single]
        ph == photo[Single]
        canvas == PanelSize(Single)
        places == IF src = NoSize \/ ph = NoPhoto THEN {}
                  ELSE {Placed(src, ph, offset[Single], x, y) :
                            x \in {0, src[1] \div 2, src[1] - 1}, y \in {0, src[2] - 1}}
        marks == {<<0, 0>>, <<canvas[1] - 1, canvas[2] - 1>>,
                  <<canvas[1] \div 2, canvas[2] \div 2>>}
    IN  {pt \in places \cup marks :
            /\ pt[1] \in 0 .. canvas[1] - 1
            /\ pt[2] \in 0 .. canvas[2] - 1}

\* _on_motion(event): the pointer moves to (cx, cy) of the canvas.
on_motion(cx, cy) ==
    /\ source[Single] # NoSize
    /\ coords' = canvas_to_image(source[Single], photo[Single],
                                 PanelSize(Single), offset[Single], cx, cy)
    /\ cb' = [fn |-> "on_motion", err |-> ""]
    /\ UNCHANGED <<panelVars, geometry, source, photo>>
    /\ UNCHANGED <<model, current_slice, loading, jobs, queue, shown, controlVars>>
    /\ UNCHANGED <<dicomVars, niftiVars, utilVars>>

\* The layouts the window takes once it is mapped.
CanvasGeometries == {"small", "large"}

CanvasNext ==
    \/ \E size \in Images : display(size)
    \/ \E g \in CanvasGeometries : configure(g)
    \/ on_mousewheel(Single, TRUE)
    \/ on_mousewheel(Single, FALSE)
    \/ \E d \in Drags : on_pan(Single, d)
    \/ fit_view
    \/ actual_size
    \/ \E pt \in Pointers : on_motion(pt[1], pt[2])

InitCanvas ==
    VolumesInit(1 .. MaxLoads) /\ SessionInit /\ NiftiInit(1 .. MaxLoads) /\ ViewInit /\ UtilInit

SpecCanvas == InitCanvas /\ [][CanvasNext]_vars


(***************************************************************************)
(* C24.  The pointer is at the canvas location where the last render, made *)
(* in the canvas as it is now, placed source pixel (x, y): the mapping     *)
(* returns (x, y) to within the number of source pixels that one displayed *)
(* pixel stands for, rounded up, which is 1 when the image is displayed at *)
(* its size or larger; for a pointer outside the displayed image it        *)
(* returns None.                                                           *)
(***************************************************************************)

\* The pointer has just moved over the canvas, which was rendered at the size
\* it has now.
MotionOverRender ==
    /\ cb.fn = "on_motion"
    /\ source[Single] # NoSize
    /\ photo[Single] # NoPhoto
    /\ photo[Single].canvas = PanelSize(Single)

Distance(a, b) == IF a >= b THEN a - b ELSE b - a

\* How many source pixels, rounded up, one displayed pixel stands for.
PixelsPerPixel(n, d) == Max(1, (n + d - 1) \div d)

\* The pointer is in the rectangle of the image that was drawn.
OverImage ==
    LET ph == photo[Single]
        corner == Corner(ph, offset[Single])
    IN  /\ coords.at[1] - corner[1] \in 0 .. ph.size[1] - 1
        /\ coords.at[2] - corner[2] \in 0 .. ph.size[2] - 1

\* The value returned is within tol of every source pixel placed at the
\* pointer, and None outside the image.
RoundTrip(tolx, toly) ==
    LET src == source[Single]
        ph == photo[Single]
    IN  /\ \A x \in 0 .. src[1] - 1, y \in 0 .. src[2] - 1 :
              Placed(src, ph, offset[Single], x, y) = coords.at =>
                  /\ ~coords.none
                  /\ Distance(coords.x, x) <= tolx
                  /\ Distance(coords.y, y) <= toly
        /\ ~OverImage => coords.none

C24_RoundTripWithinScale ==
    MotionOverRender =>
        RoundTrip(PixelsPerPixel(source[Single][1], photo[Single].size[1]),
                  PixelsPerPixel(source[Single][2], photo[Single].size[2]))

\* The statement with a tolerance of one pixel at every zoom.
C24_RoundTripWithinOnePixel == MotionOverRender => RoundTrip(1, 1)

\* The pointer is on a pixel other than the first of an image that was
\* zoomed and dragged, and the mapping returned a pixel.
C24_Witness ==
    /\ MotionOverRender
    /\ zoom[Single] # ZoomUnit
    /\ offset[Single] # <<0, 0>>
    /\ ~coords.none
    /\ coords.x > 0
    /\ \E x \in 1 .. source[Single][1] - 1, y \in 0 .. source[Single][2] - 1 :
          Placed(source[Single], photo[Single], offset[Single], x, y) = coords.at

\* The pointer is outside the image that was drawn.
C24_WitnessOutside == MotionOverRender /\ ~OverImage /\ coords.none


(***************************************************************************)
(* The functions of viewer/utils, each applied to arguments drawn from a   *)
(* bounded set.  An array is the sequence of its values.                   *)
(***************************************************************************)

\* The largest side of an image and of a container, the longest array and
\* the values of its elements.
MaxSide == 6

MaxBox == 4

MaxData == 3

MaxValue == 3

Sides == 1 .. MaxSide

Boxes == -1 .. MaxBox

Arrays == UNION {[1 .. n -> -2 .. MaxValue] : n \in 1 .. MaxData}

Centers == {-1, 0, 2}

Widths == 1 .. 4

ResizeArgs ==
    {[NoArg EXCEPT !.img = <<w, h>>, !.box = <<mw, mh>>] :
        w \in Sides, h \in Sides, mw \in Boxes, mh \in Boxes}

NormalizeArgs == {[NoArg EXCEPT !.data = d] : d \in Arrays}

WindowArgs ==
    {[NoArg EXCEPT !.data = d, !.center = c, !.width = w] :
        d \in Arrays, c \in Centers, w \in Widths}

\* np.min(data) and np.max(data).
np_min(d) == CHOOSE x \in {d[i] : i \in DOMAIN d} : \A i \in DOMAIN d : x <= d[i]

np_max(d) == CHOOSE x \in {d[i] : i \in DOMAIN d} : \A i \in DOMAIN d : x >= d[i]

\* An array of equal values becomes white.
normalize_min_max_white(d) ==
    LET mn == np_min(d)
        mx == np_max(d)
    IN  IF mn = mx THEN [i \in DOMAIN d |-> 255]
        ELSE [i \in DOMAIN d |-> ((d[i] - mn) * 255) \div (mx - mn)]

\* normalize_min_max(data): (data - mn) / (mx - mn) * 255.0, truncated by
\* astype(np.uint8); zeros when mn == mx.
normalize_min_max(d) ==
    LET mn == np_min(d)
        mx == np_max(d)
    IN  IF mn = mx THEN [i \in DOMAIN d |-> 0]
        ELSE [i \in DOMAIN d |-> ((d[i] - mn) * 255) \div (mx - mn)]

\* np.clip(x, lo, hi).
np_clip(x, lo, hi) == IF x < lo THEN lo ELSE IF x > hi THEN hi ELSE x

\* The window with rounding to the nearest value.
apply_window_level_rounded(d, center, width) ==
    [i \in DOMAIN d |->
        np_clip(((2 * (d[i] - center) + width) * 255 + width) \div (2 * width),
                0, 255)]

\* apply_window_level(data, center, width): with lower = center - width / 2
\* and upper = center + width / 2, (data - lower) / (upper - lower) * 255.0
\* clipped to [0, 255] and truncated by astype(np.uint8).
apply_window_level(d, center, width) ==
    [i \in DOMAIN d |->
        np_clip(((2 * (d[i] - center) + width) * 255) \div (2 * width), 0, 255)]

call_resize_to_fit ==
    /\ arg \in ResizeArgs
    /\ out' = [fn |-> "resize_to_fit",
               size |-> resize_to_fit(arg.img, arg.box[1], arg.box[2]),
               data |-> <<>>]
    /\ UNCHANGED <<arg, sessionVars, viewVars, dicomVars, niftiVars>>

call_normalize_min_max ==
    /\ arg \in NormalizeArgs
    /\ out' = [fn |-> "normalize_min_max", size |-> NoSize,
               data |-> normalize_min_max(arg.data)]
    /\ UNCHANGED <<arg, sessionVars, viewVars, dicomVars, niftiVars>>

call_apply_window_level ==
    /\ arg \in WindowArgs
    /\ out' = [fn |-> "apply_window_level", size |-> NoSize,
               data |-> apply_window_level(arg.data, arg.center, arg.width)]
    /\ UNCHANGED <<arg, sessionVars, viewVars, dicomVars, niftiVars>>

UtilNext ==
    \/ call_resize_to_fit
    \/ call_normalize_min_max
    \/ call_apply_window_level

InitUtil ==
    /\ VolumesInit(1 .. MaxLoads) /\ SessionInit /\ NiftiInit(1 .. MaxLoads) /\ ViewInit
    /\ arg \in ResizeArgs \cup NormalizeArgs \cup WindowArgs
    /\ out = NoOut

SpecUtil == InitUtil /\ [][UtilNext]_vars


(***************************************************************************)
(* C25.  resize_to_fit returns the source size when a side of the          *)
(* container is zero or negative, and for a container of positive sides a  *)
(* size that keeps the aspect, fits in the container and touches it: its   *)
(* width is in 1 .. max_w and its height in 1 .. max_h.                    *)
(***************************************************************************)
C25_ResizeToFitFits ==
    out.fn = "resize_to_fit" =>
        IF arg.box[1] <= 0 \/ arg.box[2] <= 0 THEN out.size = arg.img
        ELSE /\ out.size[1] \in 1 .. arg.box[1]
             /\ out.size[2] \in 1 .. arg.box[2]
             /\ out.size[1] = arg.box[1] \/ out.size[2] = arg.box[2]

\* The part about a container without extent.
C25_EmptyContainerKeepsSize ==
    (out.fn = "resize_to_fit" /\ (arg.box[1] <= 0 \/ arg.box[2] <= 0)) =>
        out.size = arg.img

(***************************************************************************)
(* C26.  normalize_min_max returns as many values as it was given, each in *)
(* 0 .. 255; when minimum and maximum differ every minimum becomes 0,      *)
(* every maximum 255 and the order of the values is kept; when all values  *)
(* are equal every output is 0.                                            *)
(***************************************************************************)
C26_NormalizeMinMax ==
    out.fn = "normalize_min_max" =>
        LET d == arg.data
            o == out.data
            mn == np_min(d)
            mx == np_max(d)
        IN  /\ DOMAIN o = DOMAIN d
            /\ \A i \in DOMAIN o : o[i] \in 0 .. 255
            /\ IF mn = mx THEN \A i \in DOMAIN o : o[i] = 0
               ELSE /\ \A i \in DOMAIN d : d[i] = mn => o[i] = 0
                    /\ \A i \in DOMAIN d : d[i] = mx => o[i] = 255
                    /\ \A i, j \in DOMAIN d : d[i] <= d[j] => o[i] <= o[j]

\* An array with a value strictly between its minimum and its maximum, which
\* got a value strictly between 0 and 255.
C26_Witness ==
    /\ out.fn = "normalize_min_max"
    /\ \E i, j, k \in DOMAIN arg.data :
          /\ arg.data[i] < arg.data[j] /\ arg.data[j] < arg.data[k]
          /\ out.data[i] = 0 /\ out.data[k] = 255
          /\ out.data[j] \in 1 .. 254

\* An array of equal values.
C26_WitnessFlat ==
    /\ out.fn = "normalize_min_max"
    /\ Len(arg.data) > 1
    /\ np_min(arg.data) = np_max(arg.data)

(***************************************************************************)
(* C27.  For a width above zero apply_window_level maps every value at or  *)
(* below center - width/2 to 0, every value at or above center + width/2   *)
(* to 255, a value at the center to 127, and keeps the order of the values *)
(* within 0 .. 255.                                                        *)
(***************************************************************************)
C27_ApplyWindowLevel ==
    (out.fn = "apply_window_level" /\ arg.width > 0) =>
        LET d == arg.data
            o == out.data
        IN  /\ DOMAIN o = DOMAIN d
            /\ \A i \in DOMAIN d :
                  /\ o[i] \in 0 .. 255
                  /\ 2 * d[i] <= 2 * arg.center - arg.width => o[i] = 0
                  /\ 2 * d[i] >= 2 * arg.center + arg.width => o[i] = 255
                  /\ d[i] = arg.center => o[i] = 127
            /\ \A i, j \in DOMAIN d : d[i] <= d[j] => o[i] <= o[j]

\* A value below the window, the center and a value above the window.
C27_Witness ==
    /\ out.fn = "apply_window_level"
    /\ \E i, j, k \in DOMAIN arg.data :
          /\ 2 * arg.data[i] < 2 * arg.center - arg.width /\ out.data[i] = 0
          /\ arg.data[j] = arg.center /\ out.data[j] = 127
          /\ 2 * arg.data[k] > 2 * arg.center + arg.width /\ out.data[k] = 255


(***************************************************************************)
(* C28.  Whenever the session has a window center and a window width, the  *)
(* width, which _apply_pipeline passes to apply_window_level at every      *)
(* render, is above zero, whether it came from a preset, from the          *)
(* toolbar's sliders or from the header of a DICOM file at the load.       *)
(***************************************************************************)
C28_WindowWidthPositive ==
    (model # None /\ ~window.none) => window.width > 0

\* The parts about the presets and the sliders of the toolbar.
C28_ChosenWidthPositive ==
    (model # None /\ ~window.none /\ cb.fn \in {"on_window_preset", "on_window_manual"})
        => window.width > 0


(***************************************************************************)
(* C29.  Every index the controller passes to get_slice of the active      *)
(* volume is in 0 .. num_slices(axis) - 1 of that volume: the index of the *)
(* ImageCanvas and the index of each axis of the multi-axis view.          *)
(***************************************************************************)
SingleIndexInRange ==
    (model # None /\ ret.op = "get_slice" /\ ret.self = model)
        => ret.index \in 0 .. num_slices(model) - 1

AxisIndexInRange ==
    (model # None /\ nret.op = "get_slice" /\ nret.self = model)
        => nret.index \in 0 .. data[model].shape[nret.axis + 1] - 1

C29_SliceIndexInRange == SingleIndexInRange /\ AxisIndexInRange


(***************************************************************************)
(* The session with its threads scheduled: the thread of a load that was   *)
(* started runs to its end, and the display thread runs the callbacks that *)
(* were posted to it with after(0, ...).  Nothing is assumed about what    *)
(* the user does.                                                          *)
(***************************************************************************)
WorkerRuns == \E j \in 1 .. MaxLoads : load_directory_bg(j)

InitSessionFair ==
    VolumesInit(1 .. MaxLoads) /\ SessionInit /\ NiftiInit(1 .. MaxLoads) /\ ViewInit /\ UtilInit

SpecSessionFair ==
    /\ InitSessionFair
    /\ [][SessionNext]_vars
    /\ WF_vars(WorkerRuns)
    /\ WF_vars(on_directory_loaded)
    /\ WF_vars(showerror)
    /\ WF_vars(set_loading_false)
    /\ WF_vars(status_load_failed)

(***************************************************************************)
(* C30.  Every load that is started ends with the toolbar's loading state  *)
(* cleared: whenever the loading state is set, it is cleared later,        *)
(* whether the load succeeds, fails on its thread or fails in the handoff  *)
(* on the display thread.                                                  *)
(***************************************************************************)
C30_LoadingEventuallyCleared == loading ~> ~loading

\* The loads that do not fail in the handoff: a handoff that ends without an
\* exception and the second callback of a failed load clear the loading state.
C30_ClearedUnlessHandoffFails ==
    [][(/\ queue # <<>>
        /\ queue' = Tail(queue)
        /\ Head(queue).fn \in {"on_directory_loaded", "set_loading"}
        /\ cb'.err = "") => ~loading']_vars

=============================================================================
